---- MODULE Spec2Model ----
(***************************************************************************)
(* A model of the Figma design-tree-to-markup compiler                     *)
(* (src/fetch_figma_layout.py) and of its utility-unification post-pass    *)
(* (src/tools/unify_styles.py).                                            *)
(*                                                                         *)
(* The module holds three state machines over one set of variables:        *)
(*   - the generation pipeline (section detection, then one markup         *)
(*     generation step per section);                                       *)
(*   - the layout analysis of one container (analyze_layout_structure);    *)
(*   - the utility-unification tool (parse, group, append, annotate).      *)
(* Python module globals are variables; Python functions are operators     *)
(* that keep the names they have in the source.                            *)
(***************************************************************************)
EXTENDS Integers, Sequences, FiniteSets, TLC

VARIABLES
    pc,                     \* position of the running script
    cfg,                    \* configuration read from the environment
    doc,                    \* the design document: node id -> node
    sections,               \* detected sections (module global `sections`)
    CURRENT_SECTION_INDEX,  \* heading policy state
    HAS_H1_EMITTED,         \* heading policy state
    html,                   \* emitted markup elements, in emission order
    collected_node_styles,  \* node id -> list of declarations
    NODE_KIND_MAP,          \* safe node id -> kind
    layout_info,            \* result of analyze_layout_structure
    style_css,              \* unify_styles: rules of style.css
    index_html,             \* unify_styles: class lists of index.html
    util_map,               \* unify_styles: utility name -> declarations
    fills_style,            \* colour resolution: result of the fill extraction of one node
    input_json,             \* the JSON the run reads, before preprocessing
    INCLUDE_CANDIDATES,     \* dry-run include candidates (module global)
    exclude_calls,          \* the calls of should_exclude_node made so far, with their results
    launch,                 \* figma_02_build_from_json: arguments, .env file, os.environ and what the generator reads
    NODE_ALIAS_CANDIDATE,   \* safe node id -> alias class (module global)
    ALIAS_FREQ,             \* alias -> number of nodes registered under it
    ALIAS_BASE_FREQ,        \* namespaced alias base -> number of registrations
    pc_sections_html        \* markup of the combined output, generated a second time

vars == <<pc, cfg, doc, sections, CURRENT_SECTION_INDEX, HAS_H1_EMITTED,
          html, collected_node_styles, NODE_KIND_MAP, layout_info,
          style_css, index_html, util_map,
          fills_style,
          input_json,
          INCLUDE_CANDIDATES,
          exclude_calls,
          launch,
          NODE_ALIAS_CANDIDATE,
          ALIAS_FREQ,
          ALIAS_BASE_FREQ,
          pc_sections_html>>

-----------------------------------------------------------------------------
(* Bounds of the model *)

\* number of nodes of a generated document (the target frame included)
MaxNodes == 4

-----------------------------------------------------------------------------
(* Generic helpers *)

\* A statement sequence "x = value; ... x ... x ...": the value is computed
\* once and Op works on the result.
With(value, Op(_)) == CHOOSE r \in {Op(x) : x \in {value}} : TRUE

Abs(x) == IF x < 0 THEN -x ELSE x

Max2(a, b) == IF a >= b THEN a ELSE b

Min2(a, b) == IF a <= b THEN a ELSE b

Range(s) == {s[i] : i \in DOMAIN s}

\* Python's sorted(seq, key=...): a stable sort; `key` is a function on the
\* elements of seq.
RECURSIVE InsertByKey(_, _, _)
InsertByKey(sorted, e, key) ==
    IF sorted = <<>> THEN <<e>>
    ELSE IF key[sorted[Len(sorted)]] <= key[e] THEN Append(sorted, e)
    ELSE Append(InsertByKey(SubSeq(sorted, 1, Len(sorted) - 1), e, key),
                sorted[Len(sorted)])

RECURSIVE SortedByKey(_, _)
SortedByKey(seq, key) ==
    IF seq = <<>> THEN <<>>
    ELSE InsertByKey(SortedByKey(SubSeq(seq, 1, Len(seq) - 1), key),
                     seq[Len(seq)], key)

-----------------------------------------------------------------------------
(* Node ids and layer names *)

NodeNums == 1..MaxNodes

\* Figma node ids look like "1:23"
NodeId(i) == "1:" \o ToString(i)

NodeIds == {NodeId(i) : i \in NodeNums}

\* the frame the run is asked to generate (FRAME_NODE_ID)
FRAME_NODE_ID == NodeId(1)

\* A faulty variant of css_safe_identifier: every id becomes the same identifier.
css_safe_identifier_collapsed(text) == "n"

\* re.sub(r'[^a-zA-Z0-9_-]', '-', text), runs of '-' collapsed, '-' stripped
css_safe_identifier(text) ==
    IF \E i \in NodeNums : text = NodeId(i)
    THEN "1-" \o ToString(CHOOSE i \in NodeNums : text = NodeId(i))
    ELSE IF text = "title--secondary" THEN "title-secondary"
    ELSE text

\* The layer names of the model and, for each, the keywords that occur in its
\* lower-cased form (Python's `kw in name.lower()`).
LayerNames == {"Hero Section", "Feature", "Box", "Title", "Subtitle", "Body",
               "Photo", "Header", ""}

NameKeywords(name) ==
    CASE name = "Hero Section" -> {"hero", "section"}
      [] name = "Feature"      -> {"feature"}
      [] name = "Title"        -> {"title"}
      [] name = "Subtitle"     -> {"title", "subtitle", "sub"}
      [] name = "Photo"        -> {"photo"}
      [] name = "Header"       -> {"header"}
      [] name = "unnamed_section" -> {"section"}
      [] OTHER                 -> {}

NameHas(name, kw) == kw \in NameKeywords(name)

-----------------------------------------------------------------------------
(* The node model: the fields of a Figma node the compiler reads *)

Box(x, y, w, h) == [x |-> x, y |-> y, width |-> w, height |-> h]

DefaultNode ==
    [id |-> "", name |-> "Box", type |-> "FRAME", visible |-> TRUE,
     locked |-> FALSE, layoutPositioning |-> "AUTO",
     absoluteBoundingBox |-> Box(0, 0, 0, 0),
     children |-> <<>>,
     layoutMode |-> "NONE", layoutWrap |-> "NO_WRAP", itemSpacing |-> 0,
     paddingTop |-> 0, paddingRight |-> 0, paddingBottom |-> 0,
     paddingLeft |-> 0,
     primaryAxisAlignItems |-> "MIN", counterAxisAlignItems |-> "MIN",
     layoutGrids |-> <<>>,
     primaryAxisSizingMode |-> "", counterAxisSizingMode |-> "",
     layoutSizingHorizontal |-> "", layoutGrow |-> 0, layoutAlign |-> "",
     style |-> [fontSize |-> 16, fontWeight |-> 400],
     fills |-> <<>>, opacity |-> 100]

Node(id) == doc[id]

Children(node) == [i \in DOMAIN node.children |-> Node(node.children[i])]

target_frame == Node(FRAME_NODE_ID)

ROOT_FRAME_BOUNDS == target_frame.absoluteBoundingBox

ROOT_CHILD_IDS == Range(target_frame.children)

-----------------------------------------------------------------------------
(* Configuration (environment variables, with the defaults of the source) *)

DefaultConfig ==
    [HEADING_STRATEGY |-> "single_h1",
     ALLOW_H1_IN_FIRST_SECTION |-> TRUE,
     SECTION_HEADING_BASE |-> 2,
     NODE_STYLE_SCOPE |-> "conservative",
     SUPPRESS_CONTAINER_WIDTH |-> TRUE,
     SUPPRESS_FIXED_HEIGHT |-> TRUE,
     USE_ASPECT_RATIO |-> TRUE,
     USE_IMAGES |-> FALSE,
     USE_ABB_RATIO_2COL |-> TRUE,
     USE_AL_RATIO_2COL |-> TRUE,
     INFER_SIBLING_MARGINS |-> TRUE,
     FLATTEN_SHALLOW_WRAPPERS |-> FALSE,
     IMAGE_CONTAINER_SUPPRESS_LEAFS |-> TRUE,
     EXCLUDE_LAYER_NAMES |-> {},
     EXCLUDE_LAYER_IDS |-> {},
     EXCLUDE_HEADER_FOOTER |-> TRUE,
     EXCLUDE_INCLUDES |-> TRUE,
     INCLUDE_SCOPE |-> "root_only",
     INCLUDE_DRY_RUN |-> TRUE,
     INCLUDE_DENYLIST_IDS |-> {},
     INCLUDE_ALLOWLIST_IDS |-> {},
     N_CLASS_ALIAS_MODE |-> "off",
     N_CLASS_ALIAS_SOURCE |-> "semantic",
     N_CLASS_ALIAS_NAMESPACE |-> "section",
     N_CLASS_ALIAS_STYLE |-> "bem",
     N_CLASS_ALIAS_DEDUP |-> "section_index"]

-----------------------------------------------------------------------------
(* Exclusion engine *)

\* a very thin absolutely positioned rectangle (an underline, a divider)
is_decorative_absolute_rect(node) ==
    /\ node.type = "RECTANGLE"
    /\ node.layoutPositioning = "ABSOLUTE"
    /\ node.absoluteBoundingBox.height <= 14

\* build_reuse_maps: how many nodes of the document carry this layer name
REUSE_NAME_COUNT(name) ==
    Cardinality({id \in DOMAIN doc : doc[id].name = name})

INCLUDE_KEYWORDS ==
    {"include", "inc", "partial", "shared", "common", "global", "template",
     "layout", "base", "nav", "header", "footer", "breadcrumb"}

\* The score of is_include_like, doubled so that it stays an integer
\* (3.0, 2.0, 2.0, 1.5 and 1.0 become 6, 4, 4, 3 and 2).
is_include_like(node) ==
    LET b  == node.absoluteBoundingBox
        r  == ROOT_FRAME_BOUNDS
        near_top    == (b.y - r.y) < 120
        near_bottom == (b.y + b.height) > (r.y + r.height - 160)
        wide        == r.width > 0 /\ 10 * b.width >= 9 * r.width
    IN  (IF node.type \in {"INSTANCE", "COMPONENT", "COMPONENT_SET"} THEN 6 ELSE 0)
      + (IF node.name # "" /\ \E kw \in INCLUDE_KEYWORDS : NameHas(node.name, kw)
         THEN 4 ELSE 0)
      + (IF node.name # "" /\ REUSE_NAME_COUNT(node.name) >= 3 THEN 4 ELSE 0)
      + (IF (near_top \/ near_bottom) /\ wide THEN 3 ELSE 0)
      + (IF node.locked THEN 2 ELSE 0)

\* INCLUDE_SCORE_THRESHOLD (3.5), doubled like the score
INCLUDE_SCORE_THRESHOLD_X2 == 7

\* A faulty variant of is_probable_header_footer: the answer depends on the
\* include candidates recorded so far.
is_probable_header_footer_stateful(node) ==
    /\ INCLUDE_CANDIDATES = <<>>
    /\ node.absoluteBoundingBox.width > 0

is_probable_header_footer(node) ==
    LET b == node.absoluteBoundingBox
        r == ROOT_FRAME_BOUNDS
        name_is_header == \E k \in {"header", "nav", "navigation"} : NameHas(node.name, k)
        name_is_footer == NameHas(node.name, "footer")
        near_top       == (b.y - r.y) < 120
        near_bottom    == (b.y + b.height) > (r.y + r.height - 160)
        wide           == 10 * b.width > 9 * Max2(r.width, 1)
        \* h < max(320, root_h * 0.4)
        not_too_tall   == b.height < 320 \/ 10 * b.height < 4 * r.height
        is_header_like == wide /\ near_top /\ not_too_tall
        is_footer_like == wide /\ near_bottom /\ not_too_tall
    IN  IF r.width <= 0 \/ r.height <= 0 \/ b.width <= 0 \/ b.height <= 0 THEN FALSE
        ELSE IF name_is_header /\ (is_header_like \/ wide) THEN TRUE
        ELSE IF name_is_footer /\ (is_footer_like \/ wide) THEN TRUE
        ELSE IF is_header_like THEN TRUE
        ELSE is_footer_like

\* EXCLUDE_TEXT_EXACT is empty (its default), so that rule excludes nothing.
should_exclude_node(node) ==
    IF node.visible = FALSE THEN TRUE
    ELSE IF is_decorative_absolute_rect(node) THEN TRUE
    ELSE IF node.id \in cfg.EXCLUDE_LAYER_IDS THEN TRUE
    ELSE IF node.name = "" THEN FALSE
    ELSE IF \E kw \in cfg.EXCLUDE_LAYER_NAMES : NameHas(node.name, kw) THEN TRUE
    ELSE IF /\ cfg.EXCLUDE_INCLUDES
            /\ node.id \notin cfg.INCLUDE_ALLOWLIST_IDS
            /\ (cfg.INCLUDE_SCOPE = "all" \/ node.id \in ROOT_CHILD_IDS)
            /\ is_include_like(node) >= INCLUDE_SCORE_THRESHOLD_X2
            /\ ~cfg.INCLUDE_DRY_RUN
            /\ node.id \notin cfg.INCLUDE_DENYLIST_IDS
         THEN TRUE
    ELSE /\ cfg.EXCLUDE_HEADER_FOOTER
         /\ node.id \in ROOT_CHILD_IDS
         /\ is_probable_header_footer(node)

-----------------------------------------------------------------------------
(* Section detector *)

section_keywords ==
    {"section", "hero", "feature", "pricing", "contact", "about", "service",
     "gallery", "content", "main"}

is_section_name(name) == \E keyword \in section_keywords : NameHas(name, keyword)

\* A section: frame-detected sections carry the frame's children, position-
\* detected ones the flattened elements (and no name).
FrameSection(node) ==
    [type |-> "frame_detected", id |-> node.id, name |-> node.name,
     children |-> node.children, elements |-> <<>>]

PositionSection(elements) ==
    [type |-> "position_detected", id |-> "", name |-> "unnamed_section",
     children |-> <<>>, elements |-> elements]

\* Pre-order search for FRAME nodes with a section-like name; an excluded node
\* ends the search below it, a match does not.
RECURSIVE detect_sections_by_frames(_)
RECURSIVE detect_sections_in(_, _)
detect_sections_by_frames(node) ==
    IF should_exclude_node(node) THEN <<>>
    ELSE (IF node.type = "FRAME" /\ is_section_name(node.name)
          THEN <<FrameSection(node)>> ELSE <<>>)
         \o detect_sections_in(node.children, 1)

detect_sections_in(kids, i) ==
    IF i > Len(kids) THEN <<>>
    ELSE detect_sections_by_frames(Node(kids[i])) \o detect_sections_in(kids, i + 1)

\* every descendant whose path from `node` meets no excluded node, pre-order
RECURSIVE get_all_child_elements(_)
RECURSIVE get_all_child_elements_in(_, _)
get_all_child_elements(node) == get_all_child_elements_in(node.children, 1)

get_all_child_elements_in(kids, i) ==
    IF i > Len(kids) THEN <<>>
    ELSE (IF should_exclude_node(Node(kids[i])) THEN <<>>
          ELSE <<kids[i]>> \o get_all_child_elements(Node(kids[i])))
         \o get_all_child_elements_in(kids, i + 1)

\* the gap (px) between two elements that starts a new section
POSITION_THRESHOLD == 100

\* The loop of detect_sections_by_position over the Y-sorted elements:
\* `cur` is current_section_elements, `last_y` the bottom of the last element.
RECURSIVE split_by_gap(_, _, _, _)
split_by_gap(sorted_elements, i, cur, last_y) ==
    IF i > Len(sorted_elements)
    THEN (IF cur # <<>> THEN <<PositionSection(cur)>> ELSE <<>>)
    ELSE LET b == Node(sorted_elements[i]).absoluteBoundingBox
         IN  IF b.y - last_y > POSITION_THRESHOLD /\ cur # <<>>
             THEN <<PositionSection(cur)>>
                  \o split_by_gap(sorted_elements, i + 1,
                                  <<sorted_elements[i]>>, b.y + b.height)
             ELSE split_by_gap(sorted_elements, i + 1,
                               Append(cur, sorted_elements[i]), b.y + b.height)

detect_sections_by_position(node) ==
    LET all_children    == SelectSeq(get_all_child_elements(node),
                                     LAMBDA id : ~should_exclude_node(Node(id)))
        ykey            == [id \in Range(all_children) |->
                               Node(id).absoluteBoundingBox.y]
        sorted_elements == SortedByKey(all_children, ykey)
    IN  split_by_gap(sorted_elements, 1, <<>>, 0)

\* "sections = detect_sections_by_frames(target_frame); if not sections: ..."
detect_sections ==
    LET by_frames == detect_sections_by_frames(target_frame)
    IN  IF by_frames # <<>> THEN by_frames
        ELSE detect_sections_by_position(target_frame)

-----------------------------------------------------------------------------
(* Layout analyzer *)

RECURSIVE GCD(_, _)
GCD(a, b) == IF b = 0 THEN a ELSE GCD(b, a % b)

RECURSIVE SumWidths(_)
SumWidths(row) == IF row = <<>> THEN 0 ELSE row[1].width + SumWidths(Tail(row))

\* The comparisons of classify_ratio_precise are made on floats.  For a share
\* w/total that lies exactly `tol` away from `centre` the float subtraction
\* decides; these are the (centre, share) pairs, in percent, for which
\* abs(share - centre) < tol evaluates to True in IEEE double arithmetic.
FloatRoundsBelow ==
    {<<50, 45>>, <<33, 28>>, <<33, 38>>, <<67, 72>>, <<40, 45>>, <<60, 55>>,
     <<25, 20>>, <<25, 30>>, <<43, 40>>, <<57, 54>>}

\* A faulty variant of RatioNear: every tolerance is twice as wide.
RatioNear_wide(w, total, centre, tol) ==
    Abs(100 * w - centre * total) < 2 * tol * total

\* abs(w / total - centre / 100) < tol / 100
RatioNear(w, total, centre, tol) ==
    LET d == Abs(100 * w - centre * total)
    IN  \/ d < tol * total
        \/ /\ d = tol * total
           /\ (100 * w) % total = 0
           /\ <<centre, (100 * w) \div total>> \in FloatRoundsBelow

\* f"{left:.2f}:{right:.2f}" is a function of the two shares; the model keeps
\* the shares themselves, in lowest terms.
LiteralShare(w, total) ==
    LET g == GCD(w, total)
    IN  ToString(w \div g) \o "/" \o ToString(total \div g)

RECURSIVE LiteralRatio(_, _, _)
LiteralRatio(row, i, total) ==
    IF i > Len(row) THEN ""
    ELSE LiteralShare(row[i].width, total)
         \o (IF i < Len(row) THEN ":" ELSE "")
         \o LiteralRatio(row, i + 1, total)

\* `row` holds the elements of one row, left to right; ratios[i] of the source
\* is row[i].width / total.
classify_ratio_precise(row, total) ==
    IF Len(row) = 2 THEN
        LET l == row[1].width
            r == row[2].width
            Pair(cl, cr, tol) ==
                \/ RatioNear(l, total, cl, tol) /\ RatioNear(r, total, cr, tol)
                \/ RatioNear(l, total, cr, tol) /\ RatioNear(r, total, cl, tol)
        IN  IF RatioNear(l, total, 50, 5) /\ RatioNear(r, total, 50, 5) THEN "1:1"
            ELSE IF Pair(33, 67, 5) THEN "1:2"
            ELSE IF Pair(40, 60, 5) THEN "2:3"
            ELSE IF Pair(25, 75, 5) THEN "1:3"
            ELSE IF Pair(43, 57, 3) THEN "3:4"
            ELSE LiteralRatio(row, 1, total)
    ELSE IF Len(row) = 3 THEN
        IF \A i \in 1..3 : RatioNear(row[i].width, total, 33, 5) THEN "1:1:1"
        ELSE LiteralRatio(row, 1, total)
    ELSE LiteralRatio(row, 1, total)

RECURSIVE analyze_column_ratios(_)
analyze_column_ratios(horizontal_groups) ==
    IF horizontal_groups = <<>> THEN <<>>
    ELSE LET group        == horizontal_groups[1]
             xkey         == [e \in Range(group) |-> e.x]
             sorted_group == SortedByKey(group, xkey)
             total_width  == SumWidths(sorted_group)
         IN  (IF Len(group) >= 2 /\ total_width > 0
              THEN <<classify_ratio_precise(sorted_group, total_width)>>
              ELSE <<>>)
             \o analyze_column_ratios(Tail(horizontal_groups))

\* inter / min_h >= 0.6
y_overlap_ok(a, b) ==
    LET top    == Max2(a.y, b.y)
        bottom == Min2(a.y + a.height, b.y + b.height)
        inter  == Max2(0, bottom - top)
        min_h  == Max2(1, Min2(a.height, b.height))
    IN  10 * inter >= 6 * min_h

\* The greedy row grouping: `order` lists the child positions by Y, `used`
\* holds the ones already placed in a row.
RECURSIVE build_rows(_, _, _)
build_rows(order, k, used) ==
    IF k > Len(order) THEN <<>>
    ELSE IF order[k] \in used THEN build_rows(order, k + 1, used)
    ELSE LET seed == order[k]
             row  == <<seed>> \o SelectSeq(order, LAMBDA c :
                         c \notin used /\ c # seed /\ y_overlap_ok(seed, c))
             xkey == [e \in Range(row) |-> e.x]
         IN  (IF Len(row) > 1 THEN <<SortedByKey(row, xkey)>> ELSE <<>>)
             \o build_rows(order, k + 1, used \cup Range(row))

RECURSIVE MaxRowLen(_)
MaxRowLen(rows) ==
    IF rows = <<>> THEN 0 ELSE Max2(Len(rows[1]), MaxRowLen(Tail(rows)))

ColumnsType(columns) ==
    IF columns = 2 THEN "two-column"
    ELSE IF columns = 3 THEN "three-column"
    ELSE IF columns >= 4 THEN "multi-column"
    ELSE "single"

\* confidence is kept in percent (0.95 -> 95)
LayoutInfo(type, columns, layout_mode, reason, confidence, ratios) ==
    [type |-> type, columns |-> columns, layout_mode |-> layout_mode,
     reason |-> reason, confidence |-> confidence, ratios |-> ratios]

\* A faulty variant of ColumnGrids: hidden grids count too.
ColumnGrids_hidden_too(element) ==
    SelectSeq(element.layoutGrids, LAMBDA grid :
        grid.pattern = "COLUMNS" /\ grid.count > 0)

\* one entry of layoutGrids
Grid(pattern, visible, count) ==
    [pattern |-> pattern, visible |-> visible, count |-> count]

\* the grids that count: pattern COLUMNS, visible, count > 0
ColumnGrids(element) ==
    SelectSeq(element.layoutGrids, LAMBDA grid :
        grid.pattern = "COLUMNS" /\ grid.visible /\ grid.count > 0)

\* The estimate for a wrapping row: (container_w + gap) // (avg_w + gap) with
\* avg_w = max(1, sum / n), computed exactly.
wrap_columns(container_w, gap, child_positions) ==
    LET n   == Len(child_positions)
        sum == SumWidths(child_positions)
        est == IF sum >= n
               THEN ((container_w + gap) * n) \div (sum + gap * n)
               ELSE (container_w + gap) \div (1 + gap)
    IN  Min2(Max2(1, est), n)

\* the position records of the children that are not excluded
child_positions_of(element) ==
    LET kept == SelectSeq(Children(element), LAMBDA c : ~should_exclude_node(c))
    IN  [i \in DOMAIN kept |->
            [id |-> kept[i].id, name |-> kept[i].name, type |-> kept[i].type,
             x |-> kept[i].absoluteBoundingBox.x,
             y |-> kept[i].absoluteBoundingBox.y,
             width |-> kept[i].absoluteBoundingBox.width,
             height |-> kept[i].absoluteBoundingBox.height]]

\* A faulty variant of y_order: the children are taken in array order.
y_order_unsorted(child_positions) == child_positions

\* order = sorted(range(n), key=lambda i: child_positions[i]["y"])
y_order(child_positions) ==
    SortedByKey(child_positions, [c \in Range(child_positions) |-> c.y])

\* step 3 of analyze_layout_structure: the rows of two or more children
position_rows(element) == build_rows(y_order(child_positions_of(element)), 1, {})

analyze_layout_structure(element) ==
    LET children    == Children(element)
        layout_mode == element.layoutMode
        grids       == ColumnGrids(element)
        child_positions == child_positions_of(element)
        container_w == element.absoluteBoundingBox.width
        wrapping    == element.layoutWrap = "WRAP" /\ container_w > 0
        cols        == IF wrapping
                       THEN wrap_columns(container_w, element.itemSpacing, child_positions)
                       ELSE Len(child_positions)
        info        == LayoutInfo(ColumnsType(cols), cols, layout_mode,
                           IF wrapping THEN "auto_layout_wrap" ELSE "auto_layout_horizontal",
                           IF wrapping THEN 70 ELSE 80, <<>>)
        rows        == position_rows(element)
        max_columns == MaxRowLen(rows)
        pos_info    == IF rows # <<>>
                       THEN LayoutInfo(ColumnsType(max_columns), max_columns, layout_mode,
                                "position", 60,
                                IF max_columns = 2 THEN analyze_column_ratios(rows) ELSE <<>>)
                       ELSE LayoutInfo("single", 1, layout_mode, "position-none", 0, <<>>)
    IN  IF Len(children) = 0
        THEN LayoutInfo("single", 1, layout_mode, "no-children", 0, <<>>)
        ELSE IF grids # <<>>
        THEN LayoutInfo(ColumnsType(grids[1].count), grids[1].count, layout_mode,
                        "grid", 95, <<>>)
        ELSE IF child_positions = <<>>
        THEN LayoutInfo("single", 1, layout_mode, "no-visible-children", 0, <<>>)
        ELSE IF layout_mode = "HORIZONTAL" /\ info.columns > 1 THEN info
        ELSE pos_info

-----------------------------------------------------------------------------
(* Style collector *)

\* One entry of a style list.  The source keeps entries as strings: "p:v" is
\* Decl(p, v) and "p: v" is DeclSp(p, v); two entries are the same string
\* exactly when they are the same record.
Decl(p, v) == [p |-> p, v |-> v, s |-> FALSE]

DeclSp(p, v) == [p |-> p, v |-> v, s |-> TRUE]

Px(n) == ToString(n) \o "px"

\* NODE_KIND_MAP.get(safe_id, None)
KindOf(kinds, safe_id) == IF safe_id \in DOMAIN kinds THEN kinds[safe_id] ELSE "None"

set_node_kind(kinds, node_id, kind) ==
    LET safe_id == css_safe_identifier(node_id)
    IN  [k \in DOMAIN kinds \cup {safe_id} |-> IF k = safe_id THEN kind ELSE kinds[k]]

\* The prefix tests of allowed(), as sets of the property names they accept.
AlwaysAllowedProps ==
    {"display", "flex-direction", "flex-wrap", "flex-grow", "flex-shrink",
     "flex-basis", "justify-content", "align-items", "align-self", "gap",
     "padding", "padding-left", "padding-right", "overflow", "max-width",
     "height", "min-height", "max-height", "transform", "transform-origin"}

WidthProps == {"width", "min-width"}

TextCosmeticProps ==
    {"color", "text-decoration", "text-transform", "font-style", "margin"}

VisualProps ==
    {"background", "background-color", "border", "border-radius", "border-top",
     "border-left", "box-shadow", "filter", "backdrop-filter", "mix-blend-mode",
     "aspect-ratio", "width", "height", "min-width", "min-height", "overflow",
     "transform", "transform-origin"}

allowed(prop, kind) ==
    LET scope == cfg.NODE_STYLE_SCOPE
    IN  IF \/ prop.p \in AlwaysAllowedProps
           \/ (prop.p \in WidthProps /\ ~cfg.SUPPRESS_CONTAINER_WIDTH)
        THEN TRUE
        ELSE IF scope = "aggressive" THEN TRUE
        ELSE IF prop.p = "color" /\ kind # "text" THEN FALSE
        ELSE IF scope = "standard" THEN TRUE
        ELSE IF kind = "text" THEN prop.p \in TextCosmeticProps
        ELSE prop.p \in VisualProps

\* a list without the later copies of an entry
RECURSIVE Dedup(_)
Dedup(seq) ==
    IF seq = <<>> THEN <<>>
    ELSE LET front == Dedup(SubSeq(seq, 1, Len(seq) - 1))
             e     == seq[Len(seq)]
         IN  IF e \in Range(front) THEN front ELSE Append(front, e)

\* collected_node_styles.get(node_id, [])
Bucket(styles, node_id) == IF node_id \in DOMAIN styles THEN styles[node_id] ELSE <<>>

\* add_node_styles: `styles` is collected_node_styles, `kinds` NODE_KIND_MAP
add_node_styles(styles, kinds, node_id, style_props) ==
    LET kind     == KindOf(kinds, css_safe_identifier(node_id))
        filtered == Dedup(SelectSeq(style_props, LAMBDA prop : allowed(prop, kind)))
    IN  IF node_id = "" \/ filtered = <<>> THEN styles
        ELSE [k \in DOMAIN styles \cup {node_id} |->
                 IF k = node_id THEN Dedup(Bucket(styles, node_id) \o filtered)
                 ELSE styles[k]]

\* the last entry of a non-empty list that names property p
LastNamed(props, p) ==
    props[CHOOSE i \in DOMAIN props :
              /\ props[i].p = p
              /\ \A j \in DOMAIN props : props[j].p = p => j <= i]

\* the property names of a list, each once, in order of first occurrence
RECURSIVE NamesInOrder(_)
NamesInOrder(props) ==
    IF props = <<>> THEN <<>>
    ELSE LET front == NamesInOrder(SubSeq(props, 1, Len(props) - 1))
             name  == props[Len(props)].p
         IN  IF name \in Range(front) THEN front ELSE Append(front, name)

\* merge_css_props: one entry per property name, the later value wins
merge_css_props(existing_props, new_props) ==
    IF existing_props = <<>> THEN new_props
    ELSE IF new_props = <<>> THEN existing_props
    ELSE LET all   == existing_props \o new_props
             names == NamesInOrder(all)
         IN  [i \in DOMAIN names |-> LastNamed(all, names[i])]

-----------------------------------------------------------------------------
(* Heading policy *)

\* The result of detect_heading_level: the tag and the new HAS_H1_EMITTED.
Heading(tag, has_h1) == [tag |-> tag, has_h1 |-> has_h1]

\* steps 1 to 3 of detect_heading_level, which return at once; "" when none
\* of them applies
heading_by_name_or_font(element) ==
    LET name        == element.name
        font_size   == element.style.fontSize
        font_weight == element.style.fontWeight
    IN  IF NameHas(name, "h1") \/ NameHas(name, "title") THEN "h1"
        ELSE IF NameHas(name, "h2") \/ NameHas(name, "subtitle") THEN "h2"
        ELSE IF NameHas(name, "h3") THEN "h3"
        ELSE IF NameHas(name, "h4") THEN "h4"
        ELSE IF font_weight >= 600 /\ font_size >= 32 THEN "h1"
        ELSE IF font_weight >= 600 /\ font_size >= 24 THEN "h2"
        ELSE IF font_weight >= 600 /\ font_size >= 18 THEN "h3"
        ELSE IF font_weight >= 600 /\ font_size >= 16 THEN "h4"
        ELSE IF font_size >= 28 THEN "h1"
        ELSE IF font_size >= 20 THEN "h2"
        ELSE ""

\* the second computation of the same guess, into `raw`
raw_heading(element) ==
    LET guess == heading_by_name_or_font(element)
    IN  IF guess = "" THEN "p" ELSE guess

\* the policy applied to `raw`
heading_policy(raw, has_h1, section_index) ==
    IF cfg.HEADING_STRATEGY = "figma"
    THEN Heading(raw, has_h1 \/ raw = "h1")
    ELSE IF cfg.HEADING_STRATEGY = "single_h1"
    THEN IF raw = "h1"
         THEN IF has_h1 \/ section_index \notin {-1, 0}
              THEN Heading("h2", has_h1)
              ELSE Heading("h1", TRUE)
         ELSE Heading(raw, has_h1)
    ELSE IF cfg.HEADING_STRATEGY = "per_section"
    THEN IF raw = "h1"
         THEN IF section_index \in {-1, 0} /\ cfg.ALLOW_H1_IN_FIRST_SECTION /\ ~has_h1
              THEN Heading("h1", TRUE)
              ELSE Heading("h2", has_h1)
         ELSE IF raw = "p" THEN Heading("p", has_h1)
         ELSE IF cfg.SECTION_HEADING_BASE <= 2
         THEN Heading(IF raw \in {"h2", "h3", "h4", "p"} THEN raw ELSE "h2", has_h1)
         ELSE IF cfg.SECTION_HEADING_BASE = 3
         THEN Heading(IF raw \in {"h2", "h3"} THEN "h3"
                      ELSE IF raw = "h4" THEN "h4" ELSE "p", has_h1)
         ELSE Heading(raw, has_h1)
    ELSE Heading(raw, has_h1)

\* detect_heading_level: a guess of steps 1 to 3 is returned before the policy
\* is reached; the policy only sees the elements those steps leave alone.
detect_heading_level(element, has_h1, section_index) ==
    LET early == heading_by_name_or_font(element)
    IN  IF early # "" THEN Heading(early, has_h1)
        ELSE heading_policy(raw_heading(element), has_h1, section_index)

-----------------------------------------------------------------------------
(* Markup generator *)

\* The documents of the model carry no fills, strokes, effects, corner radii,
\* clipping or blend modes, and no image assets were downloaded
\* (IMAGE_URL_MAP is empty): extract_fills_styles,
\* extract_stroke_and_radius_styles, extract_effects_styles and
\* extract_blend_mode_style return the empty string for every node.

\* extract_text_styles(...)["color"] of a TEXT node without fills
text_color(element) == "#000000"

image_keywords == {"image", "img", "photo", "picture", "icon", "logo", "banner"}

is_image_element(element) ==
    \/ \E i \in DOMAIN element.fills : element.fills[i].type = "IMAGE"
    \/ \E keyword \in image_keywords : NameHas(element.name, keyword)

\* the result of _child_auto_layout_rules
ChildRules(styles, skip_w, skip_h) ==
    [styles |-> styles, skip_w |-> skip_w, skip_h |-> skip_h]

align_map(layout_align) ==
    CASE layout_align = "MIN"     -> "flex-start"
      [] layout_align = "MAX"     -> "flex-end"
      [] layout_align = "CENTER"  -> "center"
      [] layout_align = "STRETCH" -> "stretch"
      [] OTHER                    -> ""

\* parent_layout_mode is "" for Python's None
child_auto_layout_rules(parent_layout_mode, child) ==
    LET layout_grow  == child.layoutGrow
        layout_align == child.layoutAlign
        sizing_h     == child.layoutSizingHorizontal
        cw           == child.absoluteBoundingBox.width
        fixed        == sizing_h = "FIXED" /\ cw > 0
        grow         == IF layout_grow > 0 THEN layout_grow ELSE 1
        flex_styles  ==
            IF parent_layout_mode = "HORIZONTAL"
            THEN (IF ~fixed THEN <<Decl("min-width", "0")>> ELSE <<>>)
                 \o (IF fixed
                     THEN <<Decl("flex", "0 0 " \o Px(cw)), Decl("width", Px(cw))>>
                     ELSE IF sizing_h = "FILL" \/ layout_grow > 0
                     THEN <<Decl("flex", ToString(grow) \o " 1 0px"), Decl("width", "auto")>>
                     ELSE <<Decl("flex", "0 0 auto"), Decl("width", "auto")>>)
            ELSE IF parent_layout_mode = "VERTICAL"
            THEN (IF ~fixed THEN <<Decl("min-width", "0")>> ELSE <<>>)
                 \o (IF layout_grow > 0
                     THEN <<Decl("flex", ToString(layout_grow) \o " 1 auto")>>
                     ELSE <<Decl("flex", "0 0 auto")>>)
            ELSE <<>>
        align_styles ==
            IF align_map(layout_align) # ""
            THEN <<Decl("align-self", align_map(layout_align))>> ELSE <<>>
        skip_w == \/ parent_layout_mode = "HORIZONTAL" /\ ~fixed
                  \/ parent_layout_mode = "VERTICAL" /\ layout_align = "STRETCH"
        skip_h == \/ parent_layout_mode = "VERTICAL"
                  \/ parent_layout_mode = "HORIZONTAL" /\ layout_align = "STRETCH"
    IN  IF parent_layout_mode = ""
        THEN IF is_image_element(child)
             THEN ChildRules(<<Decl("flex", "1 0 auto")>>, TRUE, FALSE)
             ELSE ChildRules(<<>>, FALSE, FALSE)
        ELSE ChildRules(flex_styles \o align_styles, skip_w, skip_h)

map_align(v) ==
    CASE v = "MIN"           -> "flex-start"
      [] v = "CENTER"        -> "center"
      [] v = "MAX"           -> "flex-end"
      [] v = "SPACE_BETWEEN" -> "space-between"
      [] OTHER               -> "flex-start"

\* map_auto_layout_inline_styles returns ONE string, its parts joined by "; ";
\* that string is one entry of the style list, and it starts with "display:".
\* The result is the list [inline_style] if inline_style else [].
\* HPAD_MODE is "none" (its default), so no padding is normalised.
map_auto_layout_inline_styles(element) ==
    LET layout_mode == element.layoutMode
        gap         == Max2(0, element.itemSpacing)
        padded      == \/ element.paddingTop # 0 \/ element.paddingRight # 0
                       \/ element.paddingBottom # 0 \/ element.paddingLeft # 0
        text ==
            "flex; flex-direction:"
            \o (IF layout_mode = "HORIZONTAL" THEN "row" ELSE "column")
            \o (IF gap > 0 THEN "; gap:" \o Px(gap) ELSE "")
            \o (IF padded
                THEN "; padding:" \o Px(element.paddingTop) \o " "
                     \o Px(element.paddingRight) \o " " \o Px(element.paddingBottom)
                     \o " " \o Px(element.paddingLeft)
                     \o "; --pad-l:" \o Px(element.paddingLeft)
                     \o "; --pad-r:" \o Px(element.paddingRight)
                ELSE "")
            \o "; justify-content:" \o map_align(element.primaryAxisAlignItems)
            \o "; align-items:" \o map_align(element.counterAxisAlignItems)
            \o "; flex-wrap:" \o (IF element.layoutWrap = "WRAP" THEN "wrap" ELSE "nowrap")
    IN  IF layout_mode \in {"HORIZONTAL", "VERTICAL"}
        THEN <<Decl("display", text)>> ELSE <<>>

\* names that mark an image in detect_image_text_pattern and
\* has_fixed_size_children
picture_keywords == {"image", "img", "picture", "photo", "rectangle"}

looks_like_picture(node) ==
    /\ node.type \in {"RECTANGLE", "FRAME"}
    /\ \E keyword \in picture_keywords : NameHas(node.name, keyword)

has_fixed_size_children(element) ==
    \E i \in DOMAIN element.children :
        LET child == Node(element.children[i])
        IN  /\ ~should_exclude_node(child)
            /\ \/ child.layoutSizingHorizontal = "FIXED"
                  /\ child.absoluteBoundingBox.width > 0
               \/ looks_like_picture(child)

\* "image-text", "text-image" or "" (None)
detect_image_text_pattern(element) ==
    LET is_text_container(c) ==
            \/ c.type = "TEXT"
            \/ /\ c.type = "FRAME"
               /\ \E i \in DOMAIN Node(c.id).children :
                      Node(Node(c.id).children[i]).type = "TEXT"
        \* calculate_y_overlap(first, second) >= 0.5
        side_by_side(a, b) ==
            LET top     == Max2(a.y, b.y)
                bottom  == Min2(a.y + a.height, b.y + b.height)
                overlap == Max2(0, bottom - top)
            IN  2 * overlap >= Max2(1, Min2(a.height, b.height))
        pattern(cp) ==
            With(SortedByKey(cp, [c \in Range(cp) |-> c.x]), LAMBDA sorted :
                IF ~side_by_side(sorted[1], sorted[2]) THEN ""
                ELSE IF looks_like_picture(sorted[1]) /\ is_text_container(sorted[2])
                THEN "image-text"
                ELSE IF is_text_container(sorted[1]) /\ looks_like_picture(sorted[2])
                THEN "text-image"
                ELSE "")
    IN  IF Len(element.children) < 2 THEN ""
        ELSE With(child_positions_of(element), LAMBDA cp :
                 IF Len(cp) < 2 THEN "" ELSE pattern(cp))

\* _visible_children
visible_children(node) ==
    SelectSeq(Children(node), LAMBDA c : ~should_exclude_node(c))

\* _has_visible_fill: `float(f.get('opacity', 1) or 1) <= 0` is never true
\* (an opacity of 0 is read as 1), and so for the colour's alpha
_has_visible_fill(node) ==
    \E i \in DOMAIN node.fills :
        /\ node.fills[i].visible
        /\ node.fills[i].type \in {"SOLID", "GRADIENT_LINEAR", "GRADIENT_RADIAL",
                                   "GRADIENT_ANGULAR", "GRADIENT_DIAMOND", "IMAGE"}

\* is_shallow_wrapper_candidate, for nodes without stroke, effect, corner
\* radius and clipping
is_shallow_wrapper_candidate(node) ==
    /\ cfg.FLATTEN_SHALLOW_WRAPPERS
    /\ node.type \in {"FRAME", "GROUP"}
    /\ Len(visible_children(node)) = 1
    /\ ~_has_visible_fill(node)
    /\ node.paddingLeft <= 0 /\ node.paddingRight <= 0
    /\ node.paddingTop <= 0 /\ node.paddingBottom <= 0
    /\ ~(node.layoutMode \in {"HORIZONTAL", "VERTICAL"} /\ node.itemSpacing > 0)

\* the alias globals NODE_ALIAS_CANDIDATE, ALIAS_FREQ and ALIAS_BASE_FREQ
Aliases(candidate, freq, base_freq) ==
    [candidate |-> candidate, freq |-> freq, base_freq |-> base_freq]

\* What a generation walk carries along: the markup emitted so far and the
\* module globals collected_node_styles, NODE_KIND_MAP, HAS_H1_EMITTED, the
\* alias globals and CURRENT_SECTION_KEY.
Walk(h, styles, kinds, has_h1, aliases) ==
    [html |-> h, styles |-> styles, kinds |-> kinds, has_h1 |-> has_h1,
     alias |-> aliases.candidate, alias_freq |-> aliases.freq,
     alias_base_freq |-> aliases.base_freq, section_key |-> ""]

\* one emitted element: the node it stands for, its tag, what it was emitted
\* as, the index of the section whose generation emitted it, and the alias
\* class in its class attribute ("" when it has none)
Element(node_id, tag, as, section_index) ==
    [node |-> node_id, tag |-> tag, as |-> as, section |-> section_index,
     alias |-> ""]

Emit(st, element) == [st EXCEPT !.html = Append(@, element)]

\* dict.get(key, default)
DictGet(map, key, default) == IF key \in DOMAIN map THEN map[key] ELSE default

DictPut(map, key, value) ==
    [k \in DOMAIN map \cup {key} |-> IF k = key THEN value ELSE map[k]]

\* the element is emitted with the alias class NODE_ALIAS_CANDIDATE holds for
\* its node at this moment (N_CLASS_ALIAS_DROP_N_UNIQUE is false: the node
\* class is never dropped)
EmitClassed(st, element) ==
    Emit(st, [element EXCEPT !.alias =
                  IF cfg.N_CLASS_ALIAS_MODE = "add" /\ element.node # ""
                  THEN DictGet(st.alias, css_safe_identifier(element.node), "")
                  ELSE ""])

\* clean_name.lower() made safe, for the names without a semantic keyword
lower_safe_name(element_name) ==
    CASE element_name = "Feature" -> "feature"
      [] element_name = "Box"     -> "box"
      [] element_name = "Body"    -> "body"
      [] element_name = "Photo"   -> "photo"
      [] OTHER                    -> element_name

\* generate_semantic_class: the first keyword of semantic_keywords, in the
\* order of the dictionary, that occurs in the lower-cased name, with the
\* modifier of the name; else the safe lower-cased name.  "" stands for None.
generate_semantic_class(element_name) ==
    LET modifier == IF NameHas(element_name, "sub") THEN "--secondary" ELSE ""
    IN  IF element_name = "" THEN ""
        ELSE IF NameHas(element_name, "section") THEN "section" \o modifier
        ELSE IF NameHas(element_name, "hero") THEN "hero" \o modifier
        ELSE IF NameHas(element_name, "header") THEN "header" \o modifier
        ELSE IF NameHas(element_name, "title") THEN "title" \o modifier
        ELSE IF NameHas(element_name, "heading") THEN "heading" \o modifier
        ELSE IF NameHas(element_name, "text") THEN "text" \o modifier
        ELSE lower_safe_name(element_name)

\* CURRENT_SECTION_KEY as generate_html_for_section sets it
\* (SEMANTIC_CLASS_MODE is "sections_only")
section_key_of(section_name) ==
    LET semantic_class == generate_semantic_class(section_name)
        sec_key_raw    == IF semantic_class # "" THEN semantic_class
                          ELSE IF section_name # "" THEN section_name
                          ELSE "section"
    IN  css_safe_identifier(sec_key_raw)

\* utility_classes[0] of generate_utility_classes_for_element, "" when the
\* list is empty, and whether generate_utility_class_name produced it (it is
\* then a value of UTILITY_CLASS_CACHE).  The layout analysis hands the
\* layoutMode of the element through and gives no justify and no align, the
\* grids of the model have no gutter, and the nodes have no corner radius.
first_utility_class(element) ==
    LET layout_mode == element.layoutMode
        bounds      == element.absoluteBoundingBox
        padding     == IF element.paddingLeft # 0 THEN element.paddingLeft
                       ELSE IF element.paddingTop # 0 THEN element.paddingTop
                       ELSE IF element.paddingRight # 0 THEN element.paddingRight
                       ELSE element.paddingBottom
    IN  IF detect_image_text_pattern(element) # ""
           \/ layout_mode \in {"HORIZONTAL", "VERTICAL"}
        THEN [name |-> "d-flex", cached |-> FALSE]
        ELSE IF padding > 0
        THEN [name |-> "p__" \o ToString(padding), cached |-> FALSE]
        ELSE IF bounds.width # 0
        THEN [name |-> "w__" \o ToString(bounds.width), cached |-> TRUE]
        ELSE IF bounds.height # 0
        THEN [name |-> "h__" \o ToString(bounds.height), cached |-> TRUE]
        ELSE [name |-> "", cached |-> FALSE]

bad_aliases ==
    {"section", "container", "inner", "content-width-container", "bg-fullbleed",
     "image-placeholder", "content-item", "layout-item"}

alias_stopwords ==
    {"frame", "group", "rectangle", "rect", "line", "vector", "image", "img",
     "layer", "box", "container", "inner", "section"}

\* the part of maybe_register_alias after the candidate is known: the choice
\* of the alias and its assignment to the node (N_CLASS_ALIAS_TOKEN_FILTER is
\* "none")
assign_alias(st, node_id, element_type, cand, direct) ==
    LET base     == IF cand \in alias_stopwords
                    THEN (IF element_type \in {"FRAME", "GROUP"} THEN "block" ELSE "item")
                    ELSE cand
        spaced   == cfg.N_CLASS_ALIAS_NAMESPACE = "section" /\ st.section_key # ""
        alias_base == IF ~spaced THEN base
                      ELSE st.section_key
                           \o (IF cfg.N_CLASS_ALIAS_STYLE = "bem" THEN "__" ELSE "_")
                           \o base
        base_count == DictGet(st.alias_base_freq, alias_base, 0)
        chosen   == IF direct THEN cand
                    ELSE IF spaced /\ cfg.N_CLASS_ALIAS_DEDUP = "section_index"
                            /\ base_count > 0
                    THEN alias_base \o "_" \o ToString(base_count + 1)
                    ELSE alias_base
        safe_id  == css_safe_identifier(node_id)
        prev     == DictGet(st.alias, safe_id, "")
        released == IF prev # "" /\ prev # chosen
                    THEN DictPut(st.alias_freq, prev,
                                 Max2(0, DictGet(st.alias_freq, prev, 1) - 1))
                    ELSE st.alias_freq
    IN  IF cand = "" \/ cand \in bad_aliases THEN st
        ELSE [st EXCEPT
                 !.alias_base_freq = IF ~direct /\ spaced
                                     THEN DictPut(@, alias_base, base_count + 1) ELSE @,
                 !.alias = DictPut(@, safe_id, chosen),
                 !.alias_freq = With(released, LAMBDA freq :
                                    DictPut(freq, chosen, DictGet(freq, chosen, 0) + 1))]

\* maybe_register_alias: the candidate is the first utility class of the
\* element, else the semantic class of its name
maybe_register_alias(st, node_id, element_name, element_type, element) ==
    IF cfg.N_CLASS_ALIAS_MODE # "add" \/ node_id = "" THEN st
    ELSE With(first_utility_class(element), LAMBDA utility :
             IF utility.name # ""
             THEN assign_alias(st, node_id, element_type, utility.name,
                               utility.cached)
             ELSE assign_alias(st, node_id, element_type,
                               generate_semantic_class(element_name), FALSE))

AddStyles(st, node_id, style_props) ==
    [st EXCEPT !.styles = add_node_styles(st.styles, st.kinds, node_id, style_props)]

SetKind(st, node_id, kind) ==
    [st EXCEPT !.kinds = set_node_kind(st.kinds, node_id, kind)]

\* f"{percent:.2f}%" for percent = 100 * num / den, rounded to hundredths
Percent2(num, den) ==
    LET h  == Min2(10000, Max2(0, (20000 * num + den) \div (2 * den)))
        fr == h % 100
    IN  ToString(h \div 100) \o "." \o (IF fr < 10 THEN "0" ELSE "") \o ToString(fr) \o "%"

\* the two entries a 2-column ratio assignment gives to a child
RatioStyles(num, den) ==
    <<DeclSp("flex", "0 0 " \o Percent2(num, den)), Decl("min-width", "0")>>

\* the TEXT branch of generate_element_html: the class attribute is built
\* before the alias of the node is registered; the second call of
\* detect_heading_level is the one of the alias fallback, made when the node
\* has no alias after the registration
generate_text_html(element, st, section_index) ==
    LET tag_name  == detect_heading_level(element, st.has_h1, section_index)
        st1       == SetKind(st, element.id, "text")
        st2       == AddStyles(st1, css_safe_identifier(element.id),
                               <<DeclSp("color", text_color(element))>>)
        st3       == EmitClassed([st2 EXCEPT !.has_h1 = tag_name.has_h1],
                                 Element(element.id, tag_name.tag, "text",
                                         section_index))
        tag_guess == detect_heading_level(element, tag_name.has_h1, section_index)
        fallback_name == IF tag_guess.tag \in {"h1", "h2", "h3", "h4"}
                         THEN "heading" ELSE "text"
    IN  With(maybe_register_alias(st3, element.id, element.name, "TEXT", element),
             LAMBDA st4 :
                 IF css_safe_identifier(element.id) \in DOMAIN st4.alias THEN st4
                 ELSE maybe_register_alias([st4 EXCEPT !.has_h1 = tag_guess.has_h1],
                                           element.id, fallback_name, "TEXT",
                                           element))

\* style_parts of the container branch, up to the hand-over to the node class
container_style_parts(element, own_layout_mode, parent_layout_mode) ==
    LET sizing_primary == element.primaryAxisSizingMode
        sizing_counter == element.counterAxisSizingMode
        layout_grow    == element.layoutGrow
        layout_align   == element.layoutAlign
        w == element.absoluteBoundingBox.width
        h == element.absoluteBoundingBox.height
        has_image_fill == \E i \in DOMAIN element.fills :
                              element.fills[i].type = "IMAGE" /\ element.fills[i].visible
        own_w == IF own_layout_mode = "HORIZONTAL" THEN sizing_primary
                 ELSE IF own_layout_mode = "VERTICAL" THEN sizing_counter ELSE ""
        own_h == IF own_layout_mode = "HORIZONTAL" THEN sizing_counter
                 ELSE IF own_layout_mode = "VERTICAL" THEN sizing_primary ELSE ""
        Size(prop, mode) ==
            IF mode = "AUTO" THEN <<Decl(prop, "auto")>>
            ELSE IF mode = "FILL" THEN <<Decl(prop, "100%")>> ELSE <<>>
        \* HORIZONTAL: primary axis first; VERTICAL: primary axis first
        own_parts ==
            IF own_layout_mode = "HORIZONTAL"
            THEN Size("width", own_w) \o Size("height", own_h)
            ELSE IF own_layout_mode = "VERTICAL"
            THEN Size("height", own_h) \o Size("width", own_w)
            ELSE <<>>
        rules == child_auto_layout_rules(parent_layout_mode, element)
        from_parent == parent_layout_mode # ""
        parent_parts ==
            IF ~from_parent THEN <<>>
            ELSE (IF rules.skip_w /\ parent_layout_mode = "VERTICAL"
                  THEN <<Decl("width", IF layout_align = "STRETCH" THEN "100%" ELSE "auto")>>
                  ELSE <<>>)
                 \o (IF rules.skip_h /\ parent_layout_mode = "HORIZONTAL"
                     THEN <<Decl("height", IF layout_align = "STRETCH" THEN "100%" ELSE "auto")>>
                     ELSE <<>>)
                 \o rules.styles
        add_w == own_w \notin {"AUTO", "FILL"} /\ ~(from_parent /\ rules.skip_w)
        add_h == own_h \notin {"AUTO", "FILL"} /\ ~(from_parent /\ rules.skip_h)
        fixed_parts ==
            (IF w > 0 /\ add_w /\ ~has_image_fill /\ ~cfg.SUPPRESS_CONTAINER_WIDTH
             THEN (IF parent_layout_mode # "" \/ own_layout_mode # ""
                   THEN <<Decl("min-width", Px(w))>> ELSE <<Decl("width", Px(w))>>)
             ELSE <<>>)
            \o (IF h > 0 /\ add_h THEN <<Decl("min-height", Px(h))>> ELSE <<>>)
    IN  map_auto_layout_inline_styles(element) \o own_parts \o parent_parts
        \o fixed_parts

\* the width shares the Auto Layout 2-column assignment gives to the two
\* children, as numerators over the denominator `den`; den = 0 when no
\* assignment is made
al_ratio(element) ==
    LET dc    == Children(element)
        inner == Max2(0, element.absoluteBoundingBox.width - element.paddingLeft
                         - element.paddingRight - element.itemSpacing)
        fixed(ch)  == IF ch.layoutSizingHorizontal = "FILL" THEN 0
                      ELSE ch.absoluteBoundingBox.width
        weight(ch) == IF ch.layoutSizingHorizontal = "FILL"
                      THEN (IF ch.layoutGrow > 0 THEN ch.layoutGrow ELSE 1) ELSE 0
        total_w == weight(dc[1]) + weight(dc[2])
        rem     == Max2(0, inner - fixed(dc[1]) - fixed(dc[2]))
        scale   == IF total_w > 0 THEN total_w ELSE 1
        \* widths[i] * scale
        width_s(ch) == fixed(ch) * scale + (IF total_w > 0 THEN rem * weight(ch) ELSE 0)
        den   == inner * scale
        n0    == Min2(den, Max2(0, width_s(dc[1])))
    IN  IF inner > 0 /\ (width_s(dc[1]) > 0 \/ width_s(dc[2]) > 0)
        THEN [n0 |-> n0, n1 |-> den - n0, den |-> den]
        ELSE [n0 |-> 0, n1 |-> 0, den |-> 0]

\* the 2-column ratio assignments of the container branch: both go through
\* ALL direct children of the element.  First the one from Auto Layout ...
al_ratio_assignment(element, info, st) ==
    LET dc == Children(element)
        Assign(al) ==
            IF al.den > 0
            THEN AddStyles(AddStyles(st, css_safe_identifier(dc[1].id),
                                     RatioStyles(al.n0, al.den)),
                           css_safe_identifier(dc[2].id), RatioStyles(al.n1, al.den))
            ELSE st
    IN  IF /\ cfg.USE_AL_RATIO_2COL
           /\ info.type = "two-column"
           /\ element.layoutMode = "HORIZONTAL"
           /\ Len(dc) = 2
           /\ detect_image_text_pattern(element) = ""
        THEN With(al_ratio(element), Assign)
        ELSE st

\* ... then the one from the bounding boxes
abb_ratio_assignment(element, info, st) ==
    LET dc == Children(element)
        w0 == dc[1].absoluteBoundingBox.width
        w1 == dc[2].absoluteBoundingBox.width
    IN  IF /\ cfg.USE_ABB_RATIO_2COL
           /\ info.type = "two-column"
           /\ Len(dc) = 2
           /\ w0 + w1 > 0
        THEN AddStyles(AddStyles(st, css_safe_identifier(dc[1].id),
                                 RatioStyles(w0, w0 + w1)),
                       css_safe_identifier(dc[2].id), RatioStyles(w1, w0 + w1))
        ELSE st

ratio_assignments(element, info, st) ==
    With(al_ratio_assignment(element, info, st), LAMBDA s :
        abb_ratio_assignment(element, info, s))

MARGIN_INFER_MIN_PX == 4

MARGIN_INFER_MAX_PX == 240

\* the loop of the sibling margin inference over the Y-sorted children
RECURSIVE infer_margins(_, _, _)
infer_margins(sibs_sorted, i, st) ==
    IF i > Len(sibs_sorted) THEN st
    ELSE LET prev == sibs_sorted[i - 1].absoluteBoundingBox
             cur  == sibs_sorted[i].absoluteBoundingBox
             mt   == cur.y - (prev.y + prev.height)
         IN  With(IF mt >= MARGIN_INFER_MIN_PX /\ mt <= MARGIN_INFER_MAX_PX
                  THEN AddStyles(st, css_safe_identifier(sibs_sorted[i].id),
                                 <<Decl("margin-top", Px(mt))>>)
                  ELSE st,
                  LAMBDA s : infer_margins(sibs_sorted, i + 1, s))

sibling_margins(element, own_layout_mode, st) ==
    LET sibs == Children(element)
        ykey == [c \in Range(sibs) |-> c.absoluteBoundingBox.y]
    IN  IF cfg.INFER_SIBLING_MARGINS /\ own_layout_mode = "NONE"
        THEN infer_margins(SortedByKey(sibs, ykey), 2, st)
        ELSE st

\* suppression of leaf images below a container with an image fill:
\* suppress_leaf_images and suppress_parent_bounds
NoSuppress == [on |-> FALSE, bounds |-> Box(0, 0, 0, 0)]

SUPPRESS_IMAGE_OVERLAP_THRESHOLD_PCT == 80

area(b) == Max2(0, b.width) * Max2(0, b.height)

intersection_area(a, b) ==
    LET iw == Max2(0, Min2(a.x + a.width, b.x + b.width) - Max2(a.x, b.x))
        ih == Max2(0, Min2(a.y + a.height, b.y + b.height) - Max2(a.y, b.y))
    IN  iw * ih

\* max(inter / child_area, inter / parent_area) >= threshold
leaf_image_suppressed(bounds, suppress) ==
    LET inter == intersection_area(bounds, suppress.bounds)
        Over(a) == a > 0 /\ 100 * inter >= SUPPRESS_IMAGE_OVERLAP_THRESHOLD_PCT * a
    IN  /\ suppress.on
        /\ (Over(area(bounds)) \/ Over(area(suppress.bounds))
            \/ SUPPRESS_IMAGE_OVERLAP_THRESHOLD_PCT <= 0)

\* the entries a leaf gets of its own: an image ...
image_node_props(element, parent_layout_mode, rules) ==
    LET width  == element.absoluteBoundingBox.width
        height == element.absoluteBoundingBox.height
        fixed  == element.layoutSizingHorizontal = "FIXED" /\ width # 0
    IN  (IF ~fixed THEN <<DeclSp("min-width", "0")>> ELSE <<>>)
        \o (IF parent_layout_mode = "HORIZONTAL"
            THEN (IF fixed
                  THEN <<DeclSp("flex", "0 0 " \o Px(width)), DeclSp("width", Px(width))>>
                  ELSE <<DeclSp("width", "auto")>>)
            ELSE IF ~rules.skip_w /\ ~cfg.SUPPRESS_CONTAINER_WIDTH
            THEN <<DeclSp("width", Px(width))>> ELSE <<>>)
        \o (IF rules.skip_h THEN <<>>
            ELSE IF cfg.SUPPRESS_FIXED_HEIGHT /\ cfg.USE_ASPECT_RATIO
                    /\ width # 0 /\ height # 0
            THEN <<DeclSp("aspect-ratio", ToString(width) \o "/" \o ToString(height))>>
            ELSE IF ~cfg.SUPPRESS_FIXED_HEIGHT
            THEN <<DeclSp("height", Px(height))>> ELSE <<>>)

\* ... and a plain rectangle
rect_node_props(element, rules) ==
    LET width  == element.absoluteBoundingBox.width
        height == element.absoluteBoundingBox.height
    IN  <<DeclSp("background-color", "#f0f0f0")>>
        \o (IF ~rules.skip_w /\ ~cfg.SUPPRESS_CONTAINER_WIDTH
            THEN <<DeclSp("width", Px(width))>> ELSE <<>>)
        \o (IF rules.skip_h THEN <<>>
            ELSE IF cfg.SUPPRESS_FIXED_HEIGHT /\ cfg.USE_ASPECT_RATIO
                    /\ width # 0 /\ height # 0
            THEN <<DeclSp("aspect-ratio", ToString(width) \o "/" \o ToString(height))>>
            ELSE IF ~cfg.SUPPRESS_FIXED_HEIGHT
            THEN <<DeclSp("height", Px(height))>> ELSE <<>>)

\* the leaf branch for RECTANGLE nodes and image elements
generate_leaf_html(element, st, section_index, suppress, parent_layout_mode) ==
    LET rules == child_auto_layout_rules(parent_layout_mode, element)
        safe  == css_safe_identifier(element.id)
    IN  With(maybe_register_alias(st, element.id, element.name, element.type,
                                  element), LAMBDA st0 :
        IF is_image_element(element)
        THEN IF leaf_image_suppressed(element.absoluteBoundingBox, suppress)
             THEN st0
             ELSE EmitClassed(AddStyles(SetKind(st0, element.id, "image"), safe,
                           merge_css_props(
                               image_node_props(element, parent_layout_mode, rules),
                               rules.styles)),
                       Element(element.id, IF cfg.USE_IMAGES THEN "img" ELSE "div",
                               "image", section_index))
        ELSE EmitClassed(AddStyles(SetKind(st0, element.id, "rect"), safe,
                      merge_css_props(rect_node_props(element, rules), rules.styles)),
                  Element(element.id, "div", "rect", section_index)))

\* generate_element_html: the walk of one element and of everything below it.
\* `st` is the state the walk starts in; the result is the state it ends in.
RECURSIVE generate_element_html(_, _, _, _, _)
RECURSIVE generate_children(_, _, _, _, _, _)
\* the container branch, `info` being the layout analysis of the element
generate_container_html(element, info, st, section_index, suppress, parent_mode) ==
    IF is_shallow_wrapper_candidate(element)
    THEN \* the wrapper is dropped and its only child takes its place
         LET only  == visible_children(element)[1]
             rules == child_auto_layout_rules(info.layout_mode, only)
             child_styles ==
                 IF rules.styles # <<>>
                    /\ (\A i \in DOMAIN rules.styles : rules.styles[i].p # "min-width")
                    /\ ~has_fixed_size_children(only)
                 THEN Append(rules.styles, Decl("min-width", "0"))
                 ELSE rules.styles
         IN  With(AddStyles(st, css_safe_identifier(only.id), child_styles),
                  LAMBDA s : generate_element_html(only, s, section_index,
                                 suppress, info.layout_mode))
    ELSE LET style_parts == container_style_parts(element, info.layout_mode,
                                                  parent_mode)
             st1 == With(maybe_register_alias(st, element.id, element.name,
                                              element.type, element),
                         LAMBDA st0 :
                             IF style_parts # <<>>
                             THEN AddStyles(SetKind(st0, element.id, "container"),
                                            css_safe_identifier(element.id),
                                            style_parts)
                             ELSE st0)
             st2 == EmitClassed(st1, Element(element.id, "div", "container",
                                             section_index))
             st3 == With(st2, LAMBDA s : ratio_assignments(element, info, s))
             has_image_fill ==
                 \E i \in DOMAIN element.fills :
                     element.fills[i].type = "IMAGE" /\ element.fills[i].visible
             child_suppress ==
                 IF cfg.IMAGE_CONTAINER_SUPPRESS_LEAFS /\ has_image_fill
                    /\ cfg.USE_IMAGES
                 THEN [on |-> TRUE, bounds |-> element.absoluteBoundingBox]
                 ELSE suppress
             st4 == With(st3, LAMBDA s :
                        sibling_margins(element, info.layout_mode, s))
         IN  With(st4, LAMBDA s :
                 generate_children(element.children, 1, s, section_index,
                                   child_suppress, info.layout_mode))

generate_element_html(element, st, section_index, suppress, parent_layout_mode) ==
    IF should_exclude_node(element) THEN st
    ELSE IF element.type = "TEXT" THEN generate_text_html(element, st, section_index)
    ELSE IF element.type = "FRAME" \/ element.children # <<>>
    THEN With(analyze_layout_structure(element), LAMBDA info :
             generate_container_html(element, info, st, section_index, suppress,
                                     parent_layout_mode))
    ELSE IF element.type = "RECTANGLE" \/ is_image_element(element)
    THEN generate_leaf_html(element, st, section_index, suppress, parent_layout_mode)
    ELSE \* LINE and the other leaf types: the nodes of the model have none
         EmitClassed(st, Element(element.id, "div", "other", section_index))

\* the loop over the children of a container
generate_children(kids, i, st, section_index, suppress, layout_mode) ==
    IF i > Len(kids) THEN st
    ELSE LET child == Node(kids[i])
             styled == AddStyles(st, css_safe_identifier(child.id),
                                 child_auto_layout_rules(layout_mode, child).styles)
         IN  With(IF should_exclude_node(child) THEN st
                  ELSE With(styled, LAMBDA s :
                           generate_element_html(child, s, section_index, suppress,
                                                 layout_mode)),
                  LAMBDA s : generate_children(kids, i + 1, s, section_index,
                                               suppress, layout_mode))

\* the loop of generate_html_for_section over the section's children, or over
\* its elements when it has no children
RECURSIVE generate_section_children(_, _, _, _)
generate_section_children(kids, i, st, section_index) ==
    IF i > Len(kids) THEN st
    ELSE LET child == Node(kids[i])
         IN  With(IF should_exclude_node(child) THEN st
                  ELSE generate_element_html(child, st, section_index, NoSuppress, ""),
                  LAMBDA s : generate_section_children(kids, i + 1, s, section_index))

generate_html_for_section(section_data, st, section_index) ==
    LET children == IF section_data.children # <<>> THEN section_data.children
                    ELSE section_data.elements
        prev_section_key == st.section_key
        opened   == Emit([st EXCEPT !.section_key = section_key_of(section_data.name)],
                         Element(section_data.id, "section", "section",
                                 section_index))
    IN  With(With(opened, LAMBDA s :
                 generate_section_children(children, 1, s, section_index)),
             LAMBDA s : [s EXCEPT !.section_key = prev_section_key])

-----------------------------------------------------------------------------
(* The generation pipeline as a state machine: the sections of the loaded   *)
(* target frame are detected, then the markup of one section after the     *)
(* other is generated, then the output is written.                         *)

NoLayout == LayoutInfo("", 0, "", "", 0, <<>>)

IdleLayout == layout_info = NoLayout

IdleUnify == style_css = <<>> /\ index_html = <<>> /\ util_map = <<>>

IdleFills == fills_style = <<>>

IdleInput == input_json = <<>>

IdleAlias ==
    /\ NODE_ALIAS_CANDIDATE = <<>>
    /\ ALIAS_FREQ = <<>>
    /\ ALIAS_BASE_FREQ = <<>>
    /\ pc_sections_html = <<>>

\* No node of the generator, loading, layout, unification and colour
\* families reaches the include score threshold, so their runs record no
\* include candidate.
IdleExclude == INCLUDE_CANDIDATES = <<>> /\ exclude_calls = <<>> /\ launch = <<>>

\* the elements of a set of numbers, in ascending order
RECURSIVE Ascending(_)
Ascending(S) ==
    IF S = {} THEN <<>>
    ELSE LET m == CHOOSE x \in S : \A y \in S : x <= y
         IN  <<m>> \o Ascending(S \ {m})

\* Node i of a generated document lies 150px below node i - 1, and a further
\* 150px lower from the fourth node on, so that a gap of more than
\* POSITION_THRESHOLD opens above the fourth node.
NodeBox(i) == Box(0, 150 * (i - 2) + (IF i >= 4 THEN 150 ELSE 0), 400, 100)

TextNode(name, fontSize, fontWeight, visible) ==
    [DefaultNode EXCEPT !.type = "TEXT", !.name = name, !.visible = visible,
                        !.style = [fontSize |-> fontSize, fontWeight |-> fontWeight]]

FrameNode(name) == [DefaultNode EXCEPT !.type = "FRAME", !.name = name]

\* the nodes a document of the heading family is made of
HeadingNodes ==
    { TextNode("Title", 16, 400, TRUE),
      TextNode("Body", 32, 700, TRUE),
      TextNode("Body", 16, 400, TRUE),
      FrameNode("Box"),
      FrameNode("Hero Section") }

\* the nodes a document of the style family is made of
StyleNodes ==
    { TextNode("Body", 16, 400, TRUE),
      TextNode("Body", 16, 400, FALSE),
      [FrameNode("Box") EXCEPT !.layoutGrids = <<Grid("COLUMNS", TRUE, 2)>>],
      [FrameNode("Box") EXCEPT !.layoutMode = "HORIZONTAL",
                               !.primaryAxisSizingMode = "FILL"],
      [DefaultNode EXCEPT !.type = "RECTANGLE", !.name = "Photo"] }

\* A document: node 1 is the target frame (1000 x 2000); node i > 1 is
\* kind[i], placed below the FRAME par[i]; children are listed by number.
Document(kind, par) ==
    [id \in NodeIds |->
        LET i == CHOOSE k \in NodeNums : id = NodeId(k)
            kids == Ascending({k \in 2..MaxNodes : par[k] = i})
            children == [n \in DOMAIN kids |-> NodeId(kids[n])]
        IN  IF i = 1
            THEN [FrameNode("Box") EXCEPT !.id = id, !.children = children,
                                          !.absoluteBoundingBox = Box(0, 0, 1000, 2000)]
            ELSE [kind[i] EXCEPT !.id = id, !.children = children,
                                 !.absoluteBoundingBox = NodeBox(i)]]

Documents(nodes) ==
    { Document(kind, par) :
        kind \in [2..MaxNodes -> nodes],
        par \in {q \in [2..MaxNodes -> 1..(MaxNodes - 1)] :
                    \A k \in 2..MaxNodes : q[k] < k} }

\* only FRAME nodes have children, and a parent precedes its children
WellFormed(d) ==
    \A id \in DOMAIN d : \A n \in DOMAIN d[id].children :
        /\ d[id].type = "FRAME"
        /\ \E i, k \in NodeNums : id = NodeId(i) /\ d[id].children[n] = NodeId(k) /\ i < k

Init ==
    /\ pc = "loaded"
    /\ cfg = DefaultConfig
    /\ doc \in Documents(HeadingNodes) \cup Documents(StyleNodes)
    /\ WellFormed(doc)
    /\ sections = <<>>
    /\ CURRENT_SECTION_INDEX = -1
    /\ HAS_H1_EMITTED = FALSE
    /\ html = <<>>
    /\ collected_node_styles = <<>>
    /\ NODE_KIND_MAP = <<>>
    /\ IdleLayout /\ IdleUnify /\ IdleFills /\ IdleAlias /\ IdleInput /\ IdleExclude

DetectSections ==
    /\ pc = "loaded"
    /\ sections' = detect_sections
    /\ pc' = "detected"
    /\ UNCHANGED <<cfg, doc, CURRENT_SECTION_INDEX, HAS_H1_EMITTED, html,
                   collected_node_styles, NODE_KIND_MAP, layout_info,
                   style_css, index_html, util_map,
                   fills_style,
                   input_json,
                   INCLUDE_CANDIDATES,
                   exclude_calls,
                   launch,
                   NODE_ALIAS_CANDIDATE,
                   ALIAS_FREQ,
                   ALIAS_BASE_FREQ,
                   pc_sections_html>>

\* extract_text_styles divides lineHeightPx by the font size it has read
\* (style["fontSize"] when present, else 16): a font size of 0 raises
\* ZeroDivisionError
extract_text_styles_raises(text_element) ==
    LET style     == text_element.style
        font_size == IF "fontSize" \in DOMAIN style THEN style.fontSize ELSE 16
    IN  "lineHeightPx" \in DOMAIN style /\ font_size = 0

\* collect_text_styles_from_element raises below the node: some TEXT node
\* that is not below an excluded node makes extract_text_styles raise
RECURSIVE collect_text_styles_raises(_)
collect_text_styles_raises(node_id) ==
    /\ ~should_exclude_node(Node(node_id))
    /\ \/ Node(node_id).type = "TEXT" /\ extract_text_styles_raises(Node(node_id))
       \/ \E c \in Range(Node(node_id).children) : collect_text_styles_raises(c)

\* the pass over the sections that collects the text styles, before any
\* markup is generated; no handler catches what it raises
CollectTextStyles ==
    /\ pc = "detected"
    /\ pc' = IF \E i \in DOMAIN sections :
                    \E c \in Range(sections[i].children) \cup Range(sections[i].elements) :
                        collect_text_styles_raises(c)
             THEN "raised" ELSE "collected"
    /\ UNCHANGED <<cfg, doc, sections, CURRENT_SECTION_INDEX, HAS_H1_EMITTED, html,
                   collected_node_styles, NODE_KIND_MAP, layout_info,
                   style_css, index_html, util_map,
                   fills_style,
                   input_json,
                   INCLUDE_CANDIDATES,
                   exclude_calls,
                   launch,
                   NODE_ALIAS_CANDIDATE,
                   ALIAS_FREQ,
                   ALIAS_BASE_FREQ,
                   pc_sections_html>>

\* one turn of the loop "for i, section_summary in enumerate(...)"
GenerateSection ==
    /\ pc = "collected"
    /\ CURRENT_SECTION_INDEX + 1 < Len(sections)
    /\ \E i \in {CURRENT_SECTION_INDEX + 1} :
       \E st \in {generate_html_for_section(sections[i + 1],
                       Walk(html, collected_node_styles, NODE_KIND_MAP,
                            HAS_H1_EMITTED,
                            Aliases(NODE_ALIAS_CANDIDATE, ALIAS_FREQ,
                                    ALIAS_BASE_FREQ)), i)} :
           /\ CURRENT_SECTION_INDEX' = i
           /\ html' = st.html
           /\ collected_node_styles' = st.styles
           /\ NODE_KIND_MAP' = st.kinds
           /\ HAS_H1_EMITTED' = st.has_h1
           /\ NODE_ALIAS_CANDIDATE' = st.alias
           /\ ALIAS_FREQ' = st.alias_freq
           /\ ALIAS_BASE_FREQ' = st.alias_base_freq
    /\ UNCHANGED <<pc, cfg, doc, sections, layout_info, style_css, index_html,
                   util_map,
                   fills_style,
                   input_json,
                   INCLUDE_CANDIDATES,
                   exclude_calls,
                   launch,
                   pc_sections_html>>

\* after the last section the markup and the stylesheet are written
WriteOutput ==
    /\ pc = "collected"
    /\ CURRENT_SECTION_INDEX + 1 >= Len(sections)
    /\ pc' = "done"
    /\ UNCHANGED <<cfg, doc, sections, CURRENT_SECTION_INDEX, HAS_H1_EMITTED, html,
                   collected_node_styles, NODE_KIND_MAP, layout_info,
                   style_css, index_html, util_map,
                   fills_style,
                   input_json,
                   INCLUDE_CANDIDATES,
                   exclude_calls,
                   launch,
                   NODE_ALIAS_CANDIDATE,
                   ALIAS_FREQ,
                   ALIAS_BASE_FREQ,
                   pc_sections_html>>

Next == DetectSections \/ CollectTextStyles \/ GenerateSection \/ WriteOutput

Spec == Init /\ [][Next]_vars

-----------------------------------------------------------------------------
(* Properties of the generation pipeline *)

\* the nodes the markup holds an <h1> for
H1Nodes == {html[k].node : k \in {j \in DOMAIN html : html[j].tag = "h1"}}

\* the guess of the heading level of a TEXT node is h1, by layer name or by
\* font size and weight
GuessIsH1(node_id) == raw_heading(Node(node_id)) = "h1"

\* C1: under the single_h1 strategy the markup holds an <h1> for at most one
\* node, and once an <h1> has been emitted every later TEXT node whose guess
\* is h1 is emitted as <h2>.
C1_SingleH1 ==
    cfg.HEADING_STRATEGY = "single_h1" =>
        /\ Cardinality(H1Nodes) <= 1
        /\ \A j, k \in DOMAIN html :
               (j < k /\ html[j].tag = "h1" /\ html[k].as = "text"
                /\ html[k].node # html[j].node /\ GuessIsH1(html[k].node))
               => html[k].tag = "h2"

\* the nodes below node_id that are neither excluded nor below an excluded node
RECURSIVE filtered_subtree(_)
filtered_subtree(node_id) ==
    UNION { IF should_exclude_node(Node(c)) THEN {}
            ELSE {c} \cup filtered_subtree(c) : c \in Range(Node(node_id).children) }

\* the exclusion-filtered subtree of the target frame
FilteredNodes == filtered_subtree(FRAME_NODE_ID)

\* the excluded nodes and their descendants
ExcludedNodes == (NodeIds \ {FRAME_NODE_ID}) \ FilteredNodes

HasElement(node_id) == \E k \in DOMAIN html : html[k].node = node_id

HasStyleRecord(node_id) == css_safe_identifier(node_id) \in DOMAIN collected_node_styles

\* C2: no excluded node and no descendant of one has an emitted element or an
\* entry in the style collection.
C2_ExcludedUntouched ==
    \A node_id \in ExcludedNodes : ~HasElement(node_id) /\ ~HasStyleRecord(node_id)

\* the indices of the sections whose generation emitted an element for the node
RenderingSections(node_id) ==
    {html[k].section : k \in {j \in DOMAIN html : html[j].node = node_id}}

\* C3: when generation is over, every node of the exclusion-filtered subtree
\* has been rendered by exactly one section.
C3_SectionsPartition ==
    pc = "done" =>
        \A node_id \in FilteredNodes : Cardinality(RenderingSections(node_id)) = 1

\* C4: no StyleRecord holds two declarations with the same property name.
C4_NoDuplicateProperty ==
    \A node_id \in DOMAIN collected_node_styles :
        \A i, j \in DOMAIN collected_node_styles[node_id] :
            collected_node_styles[node_id][i].p = collected_node_styles[node_id][j].p
            => i = j

\* the nodes whose children array lists the node
ParentsOf(node_id) == {p \in NodeIds : node_id \in Range(Node(p).children)}

\* the node was emitted by the child loop of an auto-layout container
IsAutoLayoutChild(node_id) ==
    /\ HasElement(node_id)
    /\ \E p \in ParentsOf(node_id) :
           /\ Node(p).layoutMode \in {"HORIZONTAL", "VERTICAL"}
           /\ \E k \in DOMAIN html : html[k].node = p /\ html[k].as = "container"

\* the flex declaration the sizing contract prescribes for a child
PrescribedFlex(child) ==
    LET grow == IF child.layoutGrow > 0 THEN child.layoutGrow ELSE 1
    IN  IF child.layoutSizingHorizontal = "FIXED"
        THEN Decl("flex", "0 0 " \o Px(child.absoluteBoundingBox.width))
        ELSE IF child.layoutSizingHorizontal = "FILL" \/ child.layoutGrow > 0
        THEN Decl("flex", ToString(grow) \o " 1 0px")
        ELSE Decl("flex", "0 0 auto")

\* C11: when generation is over, the StyleRecord of every non-excluded child
\* of an auto-layout container holds the flex declaration of the sizing
\* contract: a fixed basis for FIXED sizing, "<grow> 1 0" for FILL or grow > 0,
\* "0 0 auto" otherwise.
C11_ChildFlexContract ==
    pc = "done" =>
        \A node_id \in NodeIds :
            IsAutoLayoutChild(node_id) =>
                PrescribedFlex(Node(node_id)) \in
                    Range(Bucket(collected_node_styles, css_safe_identifier(node_id)))

\* the StyleRecord of the node holds a declaration of the property
HasDeclaration(node_id, property) ==
    \E i \in DOMAIN Bucket(collected_node_styles, css_safe_identifier(node_id)) :
        Bucket(collected_node_styles, css_safe_identifier(node_id))[i].p = property

\* C14: under the conservative scope no StyleRecord of a node that is not a
\* TEXT node holds a color declaration, at any point of the generation.
C14_ColorOnlyOnText ==
    cfg.NODE_STYLE_SCOPE = "conservative" =>
        \A node_id \in NodeIds :
            Node(node_id).type # "TEXT" => ~HasDeclaration(node_id, "color")

\* a TEXT node holds its colour, and a container holds declarations that its
\* parent contributed before the container's own kind was set
C14_Witness ==
    /\ cfg.NODE_STYLE_SCOPE = "conservative"
    /\ pc = "done"
    /\ \E node_id \in NodeIds :
           Node(node_id).type = "TEXT" /\ HasDeclaration(node_id, "color")
    /\ \E node_id \in NodeIds :
           /\ Node(node_id).type = "FRAME"
           /\ IsAutoLayoutChild(node_id)
           /\ HasDeclaration(node_id, "min-width")
           /\ HasDeclaration(node_id, "display")

\* the generation under the per_section heading strategy, over the documents
\* of the heading family
InitPerSection ==
    /\ pc = "loaded"
    /\ cfg = [DefaultConfig EXCEPT !.HEADING_STRATEGY = "per_section"]
    /\ doc \in {d \in Documents(HeadingNodes) : WellFormed(d)}
    /\ sections = <<>>
    /\ CURRENT_SECTION_INDEX = -1
    /\ HAS_H1_EMITTED = FALSE
    /\ html = <<>>
    /\ collected_node_styles = <<>>
    /\ NODE_KIND_MAP = <<>>
    /\ IdleLayout /\ IdleUnify /\ IdleFills /\ IdleAlias /\ IdleInput /\ IdleExclude

SpecPerSection == InitPerSection /\ [][Next]_vars

\* C15: under the per_section strategy no TEXT node of a section with index 1
\* or more is emitted as <h1>.
C15_NoH1AfterFirstSection ==
    cfg.HEADING_STRATEGY = "per_section" =>
        \A k \in DOMAIN html :
            (html[k].as = "text" /\ html[k].section >= 1) => html[k].tag # "h1"

\* the nodes a document of the degenerate family is made of: TEXT nodes with
\* a line height in pixels and a font size of 16 or 0, visible or hidden
DegenerateNodes ==
    { TextNode("Body", 16, 400, TRUE),
      [TextNode("Body", 16, 400, TRUE) EXCEPT
          !.style = [fontSize |-> 16, fontWeight |-> 400, lineHeightPx |-> 24]],
      [TextNode("Body", 16, 400, TRUE) EXCEPT
          !.style = [fontSize |-> 0, fontWeight |-> 400, lineHeightPx |-> 24]],
      [TextNode("Body", 16, 400, FALSE) EXCEPT
          !.style = [fontSize |-> 0, fontWeight |-> 400, lineHeightPx |-> 24]],
      FrameNode("Box") }

\* the generation over the documents of the degenerate family
InitDegenerate ==
    /\ pc = "loaded"
    /\ cfg = DefaultConfig
    /\ doc \in {d \in Documents(DegenerateNodes) : WellFormed(d)}
    /\ sections = <<>>
    /\ CURRENT_SECTION_INDEX = -1
    /\ HAS_H1_EMITTED = FALSE
    /\ html = <<>>
    /\ collected_node_styles = <<>>
    /\ NODE_KIND_MAP = <<>>
    /\ IdleLayout /\ IdleUnify /\ IdleFills /\ IdleAlias /\ IdleInput /\ IdleExclude

SpecDegenerate == InitDegenerate /\ [][Next]_vars

\* C16: generation never raises on a degenerate node field (such as a TEXT
\* node with lineHeightPx set and fontSize 0): the walk runs to completion.
C16_NeverRaises == pc # "raised"

-----------------------------------------------------------------------------
(* Loading: the JSON is read (a local file goes through clean_figma_json,   *)
(* the answer of the API does not), the target frame is searched in it, and *)
(* the generation follows.                                                  *)

\* the id of file_data["document"]
DOCUMENT_ID == "0:0"

\* should_remove_element of clean_figma_json; the nodes of the model carry no
\* effects and no strokes
should_remove_element(element) ==
    \/ ~element.visible
    \/ /\ element.fills = <<>>
       /\ element.type \in {"FRAME", "GROUP"}
       /\ Len(element.children) <= 1
    \/ /\ element.type = "FRAME"
       /\ element.fills = <<>>
       /\ \E kw \in {"frame", "group", "container", "wrapper"} : NameHas(element.name, kw)
       /\ Len(element.children) = 1

\* cleaned_children of clean_recursive: a child that stays is kept, a child
\* that goes is replaced by those of its own children that stay
RECURSIVE cleaned_children(_, _, _)
cleaned_children(data, kids, i) ==
    IF i > Len(kids) THEN <<>>
    ELSE (IF ~should_remove_element(data[kids[i]])
          THEN <<kids[i]>>
          ELSE SelectSeq(data[kids[i]].children,
                         LAMBDA g : ~should_remove_element(data[g])))
         \o cleaned_children(data, kids, i + 1)

\* the ids of the tree below (and with) a node
RECURSIVE tree_ids(_, _)
tree_ids(data, id) ==
    {id} \cup UNION {tree_ids(data, c) : c \in Range(data[id].children)}

\* the nodes a tree consists of
Tree(data) == [id \in tree_ids(data, DOCUMENT_ID) |-> data[id]]

clean_figma_json(data) ==
    Tree([id \in DOMAIN data |->
             [data[id] EXCEPT !.children = cleaned_children(data, @, 1)]])

\* load_local_json for INPUT_JSON_FILE, fetch_file_json otherwise
file_data(input) ==
    IF input.INPUT_JSON_FILE THEN clean_figma_json(input.document) ELSE input.document

\* find_node_by_id(file_data["document"], target_id) finds a node
find_node_by_id(data, target_id) == target_id \in tree_ids(data, DOCUMENT_ID)

\* the nodes a document of the loading family is made of
LoadNodes ==
    { FrameNode("Box"), TextNode("Body", 16, 400, TRUE), TextNode("Body", 16, 400, FALSE) }

DocumentNode(children) ==
    [DefaultNode EXCEPT !.id = DOCUMENT_ID, !.type = "DOCUMENT", !.name = "Document",
                        !.children = children]

\* The JSON documents of the model: the target frame, visible or hidden, is
\* the child of the document node, or the tree holds the children of that
\* frame without the frame itself.
InputDocuments ==
    { Tree([id \in DOMAIN d \cup {DOCUMENT_ID} |->
              IF id = DOCUMENT_ID
              THEN DocumentNode(IF with_frame THEN <<FRAME_NODE_ID>>
                                ELSE d[FRAME_NODE_ID].children)
              ELSE IF id = FRAME_NODE_ID THEN [d[id] EXCEPT !.visible = visible]
              ELSE d[id]]) :
        d \in {x \in Documents(LoadNodes) : WellFormed(x)},
        with_frame \in BOOLEAN, visible \in BOOLEAN }

InitLoad ==
    /\ pc = "start"
    /\ cfg = DefaultConfig
    /\ doc = <<>>
    /\ input_json \in [INPUT_JSON_FILE : BOOLEAN, document : InputDocuments]
    /\ sections = <<>>
    /\ CURRENT_SECTION_INDEX = -1
    /\ HAS_H1_EMITTED = FALSE
    /\ html = <<>>
    /\ collected_node_styles = <<>>
    /\ NODE_KIND_MAP = <<>>
    /\ IdleLayout /\ IdleUnify /\ IdleFills /\ IdleAlias /\ IdleExclude

\* file_data = load_local_json(INPUT_JSON_FILE) or fetch_file_json(FILE_KEY)
LoadDocument ==
    /\ pc = "start"
    /\ doc' = file_data(input_json)
    /\ pc' = "read"
    /\ UNCHANGED <<cfg, sections, CURRENT_SECTION_INDEX, HAS_H1_EMITTED, html,
                   collected_node_styles, NODE_KIND_MAP, layout_info,
                   style_css, index_html, util_map, fills_style, input_json,
                   INCLUDE_CANDIDATES,
                   exclude_calls,
                   launch,
                   NODE_ALIAS_CANDIDATE,
                   ALIAS_FREQ,
                   ALIAS_BASE_FREQ,
                   pc_sections_html>>

\* target_frame = find_node_by_id(...); "if not target_frame: raise ValueError"
FindTargetFrame ==
    /\ pc = "read"
    /\ pc' = IF find_node_by_id(doc, FRAME_NODE_ID) THEN "loaded" ELSE "aborted"
    /\ UNCHANGED <<cfg, doc, sections, CURRENT_SECTION_INDEX, HAS_H1_EMITTED, html,
                   collected_node_styles, NODE_KIND_MAP, layout_info,
                   style_css, index_html, util_map, fills_style, input_json,
                   INCLUDE_CANDIDATES,
                   exclude_calls,
                   launch,
                   NODE_ALIAS_CANDIDATE,
                   ALIAS_FREQ,
                   ALIAS_BASE_FREQ,
                   pc_sections_html>>

NextLoad == LoadDocument \/ FindTargetFrame \/ Next

SpecLoad == InitLoad /\ [][NextLoad]_vars

\* the run is past the search for the target frame
Searched == pc \notin {"start", "read"}

\* the target frame id occurs in the tree of the input document
OccursInInput == FRAME_NODE_ID \in tree_ids(input_json.document, DOCUMENT_ID)

\* C17: the run aborts with the missing-root error, with no section detected
\* and no markup generated or written, exactly when the target frame id does
\* not occur in the input document tree.
C17_AbortIffMissingRoot ==
    Searched =>
        /\ (pc = "aborted") <=> ~OccursInInput
        /\ pc = "aborted" => (sections = <<>> /\ html = <<>>)

-----------------------------------------------------------------------------
(* The exclusion filter as a state machine: should_exclude_node is called   *)
(* on the nodes of a loaded document, in any order and any number of times. *)

\* number of calls of should_exclude_node in a run of the exclusion machine
MaxCalls == 3

\* the return statement of should_exclude_node that decides the call
exclusion_rule(node) ==
    IF node.visible = FALSE THEN "invisible"
    ELSE IF is_decorative_absolute_rect(node) THEN "decorative"
    ELSE IF node.id \in cfg.EXCLUDE_LAYER_IDS THEN "id"
    ELSE IF node.name = "" THEN "none"
    ELSE IF \E kw \in cfg.EXCLUDE_LAYER_NAMES : NameHas(node.name, kw) THEN "name"
    ELSE IF /\ cfg.EXCLUDE_INCLUDES
            /\ node.id \notin cfg.INCLUDE_ALLOWLIST_IDS
            /\ (cfg.INCLUDE_SCOPE = "all" \/ node.id \in ROOT_CHILD_IDS)
            /\ is_include_like(node) >= INCLUDE_SCORE_THRESHOLD_X2
            /\ ~cfg.INCLUDE_DRY_RUN
            /\ node.id \notin cfg.INCLUDE_DENYLIST_IDS
         THEN "include"
    ELSE IF /\ cfg.EXCLUDE_HEADER_FOOTER
            /\ node.id \in ROOT_CHILD_IDS
            /\ is_probable_header_footer(node)
         THEN "header_footer"
    ELSE "none"

\* the call reaches INCLUDE_CANDIDATES.append(...)
records_candidate(node) ==
    /\ node.visible # FALSE
    /\ ~is_decorative_absolute_rect(node)
    /\ node.id \notin cfg.EXCLUDE_LAYER_IDS
    /\ node.name # ""
    /\ ~\E kw \in cfg.EXCLUDE_LAYER_NAMES : NameHas(node.name, kw)
    /\ cfg.EXCLUDE_INCLUDES
    /\ node.id \notin cfg.INCLUDE_ALLOWLIST_IDS
    /\ (cfg.INCLUDE_SCOPE = "all" \/ node.id \in ROOT_CHILD_IDS)
    /\ is_include_like(node) >= INCLUDE_SCORE_THRESHOLD_X2
    /\ cfg.INCLUDE_DRY_RUN

\* the boxes of the exclusion family, in a root frame of 1000 x 2000: full
\* width at the top, narrow at the top, full width in the middle, full width
\* at the bottom
ExcludeBoxes ==
    { Box(0, 0, 1000, 100), Box(0, 0, 400, 100),
      Box(0, 900, 1000, 100), Box(0, 1900, 1000, 100) }

ExcludeNodes ==
    { [FrameNode(name) EXCEPT !.absoluteBoundingBox = b, !.locked = locked] :
        name \in {"Box", "Header"}, b \in ExcludeBoxes, locked \in BOOLEAN }

\* The target frame with two children; the second one holds a header-like
\* node that is not a child of the root.
ExcludeDoc(first, second) ==
    NodeId(1) :> [FrameNode("Box") EXCEPT !.id = NodeId(1),
                      !.children = <<NodeId(2), NodeId(3)>>,
                      !.absoluteBoundingBox = Box(0, 0, 1000, 2000)]
    @@ NodeId(2) :> [first EXCEPT !.id = NodeId(2)]
    @@ NodeId(3) :> [second EXCEPT !.id = NodeId(3), !.children = <<NodeId(4)>>]
    @@ NodeId(4) :> [FrameNode("Header") EXCEPT !.id = NodeId(4),
                        !.absoluteBoundingBox = Box(0, 0, 1000, 100)]

InitExclude ==
    /\ pc = "loaded"
    /\ \E dry_run \in BOOLEAN : cfg = [DefaultConfig EXCEPT !.INCLUDE_DRY_RUN = dry_run]
    /\ \E first, second \in ExcludeNodes : doc = ExcludeDoc(first, second)
    /\ sections = <<>>
    /\ CURRENT_SECTION_INDEX = -1
    /\ HAS_H1_EMITTED = FALSE
    /\ html = <<>>
    /\ collected_node_styles = <<>>
    /\ NODE_KIND_MAP = <<>>
    /\ INCLUDE_CANDIDATES = <<>>
    /\ exclude_calls = <<>>
    /\ launch = <<>>
    /\ IdleLayout /\ IdleUnify /\ IdleFills /\ IdleAlias /\ IdleInput

\* one call should_exclude_node(node)
ShouldExcludeNode ==
    /\ pc = "loaded"
    /\ Len(exclude_calls) < MaxCalls
    /\ \E node_id \in DOMAIN doc \ {FRAME_NODE_ID} :
         LET node == Node(node_id)
         IN  /\ exclude_calls' = Append(exclude_calls,
                    [id |-> node_id, excluded |-> should_exclude_node(node),
                     rule |-> exclusion_rule(node)])
             /\ INCLUDE_CANDIDATES' =
                    IF records_candidate(node)
                    THEN Append(INCLUDE_CANDIDATES,
                                [id |-> node_id, name |-> node.name,
                                 score_x2 |-> is_include_like(node)])
                    ELSE INCLUDE_CANDIDATES
    /\ UNCHANGED <<pc, cfg, doc, sections, CURRENT_SECTION_INDEX, HAS_H1_EMITTED, html,
                   collected_node_styles, NODE_KIND_MAP, layout_info,
                   style_css, index_html, util_map, fills_style, input_json,
                   launch,
                   NODE_ALIAS_CANDIDATE,
                   ALIAS_FREQ,
                   ALIAS_BASE_FREQ,
                   pc_sections_html>>

NextExclude == ShouldExcludeNode

SpecExclude == InitExclude /\ [][NextExclude]_vars

\* The geometric criteria of the header/footer rule: near the top or bottom
\* edge of the root, width ratio above 0.9, bounded height.
GeometricCriteria(node) ==
    LET b == node.absoluteBoundingBox
        r == ROOT_FRAME_BOUNDS
    IN  /\ (b.y - r.y) < 120 \/ (b.y + b.height) > (r.y + r.height - 160)
        /\ 10 * b.width > 9 * r.width
        /\ b.height < 320 \/ 10 * b.height < 4 * r.height

HeaderFooterName(node) ==
    \E k \in {"header", "nav", "navigation", "footer"} : NameHas(node.name, k)

\* the rule log agrees with the boolean the call returns
RuleMatchesResult ==
    \A k \in DOMAIN exclude_calls :
        exclude_calls[k].excluded <=> exclude_calls[k].rule # "none"

\* C18: a call decided by the header/footer rule excludes a root-level child
\* only when the child satisfies the geometric criteria and also has a
\* header/footer-like name.
C18_HeaderFooterNeedsBoth ==
    \A k \in DOMAIN exclude_calls :
        exclude_calls[k].rule = "header_footer" =>
            /\ exclude_calls[k].id \in ROOT_CHILD_IDS
            /\ GeometricCriteria(Node(exclude_calls[k].id))
            /\ HeaderFooterName(Node(exclude_calls[k].id))

\* two calls on the same node returned the same boolean
SameInputSameResult ==
    \A i, j \in DOMAIN exclude_calls :
        exclude_calls[i].id = exclude_calls[j].id =>
            exclude_calls[i].excluded = exclude_calls[j].excluded

\* a call leaves the configuration, the document (and with it the root-frame
\* context) and the generator state alone, and appends to the candidate list
\* in dry-run mode only
OnlyCandidatesChange ==
    /\ UNCHANGED <<pc, cfg, doc, sections, CURRENT_SECTION_INDEX, HAS_H1_EMITTED,
                   html, collected_node_styles, NODE_KIND_MAP,
                   launch,
                   NODE_ALIAS_CANDIDATE,
                   ALIAS_FREQ,
                   ALIAS_BASE_FREQ,
                   pc_sections_html>>
    /\ \/ INCLUDE_CANDIDATES' = INCLUDE_CANDIDATES
       \/ /\ cfg.INCLUDE_DRY_RUN
          /\ Len(INCLUDE_CANDIDATES') = Len(INCLUDE_CANDIDATES) + 1
          /\ SubSeq(INCLUDE_CANDIDATES', 1, Len(INCLUDE_CANDIDATES)) = INCLUDE_CANDIDATES

-----------------------------------------------------------------------------
(* The layout analysis of one container as a state machine: a container is  *)
(* loaded, analysed, and analysed again after two neighbours of its        *)
(* children array have been exchanged.  The containers of InitLayout are   *)
(* closed under such exchanges, so every permutation of a children array   *)
(* is a chain of steps of this machine.                                    *)

\* the variables the layout analysis does not touch
IdleGenerator ==
    /\ sections = <<>> /\ CURRENT_SECTION_INDEX = -1 /\ HAS_H1_EMITTED = FALSE
    /\ html = <<>> /\ collected_node_styles = <<>>
    /\ NODE_KIND_MAP = <<>>

\* the layoutGrids lists a container of the model may carry
GridLists ==
    { <<>>,
      <<Grid("COLUMNS", TRUE, 2)>>,
      <<Grid("COLUMNS", FALSE, 3)>>,
      <<Grid("ROWS", TRUE, 5)>>,
      <<Grid("COLUMNS", TRUE, 0), Grid("COLUMNS", TRUE, 3)>>,
      <<Grid("COLUMNS", FALSE, 2), Grid("COLUMNS", TRUE, 4), Grid("COLUMNS", TRUE, 2)>> }

\* the container under analysis is the target frame, 1000 x 2000
Container(kids, layoutMode, layoutWrap, grids) ==
    [DefaultNode EXCEPT !.id = FRAME_NODE_ID, !.name = "Box",
                        !.absoluteBoundingBox = Box(0, 0, 1000, 2000),
                        !.children = kids, !.layoutMode = layoutMode,
                        !.layoutWrap = layoutWrap, !.layoutGrids = grids]

Child(i, box, visible) ==
    [DefaultNode EXCEPT !.id = NodeId(i), !.name = "Box",
                        !.absoluteBoundingBox = box, !.visible = visible]

KidIds(n) == [i \in 1..n |-> NodeId(i + 1)]

\* geometry of the children of the row family: three tops, two heights, and
\* a left and a right column of different widths
RowBoxes ==
    {Box(xw[1], y, xw[2], h) :
        xw \in {<<0, 400>>, <<500, 600>>}, y \in {0, 10, 50}, h \in {10, 100}}

\* widths of the children of the pair family
PairWidths == {300, 400, 500, 600}

LayoutDoc(n, container, kid) ==
    [id \in {NodeId(i) : i \in 1..(n + 1)} |->
        IF id = FRAME_NODE_ID THEN container
        ELSE kid[CHOOSE i \in 2..(n + 1) : id = NodeId(i)]]

\* containers without grid and auto layout, children anywhere in RowBoxes
InitLayoutRows ==
    \E n \in 1..(MaxNodes - 1) :
      \E boxes \in [2..(n + 1) -> RowBoxes] :
        doc = LayoutDoc(n, Container(KidIds(n), "NONE", "NO_WRAP", <<>>),
                        [i \in 2..(n + 1) |-> Child(i, boxes[i], TRUE)])

\* two visible children with the same top and height, and hidden siblings
InitLayoutPair ==
    \E n \in 2..(MaxNodes - 1), y \in {0, 50}, h \in {0, 1, 100},
       w1 \in PairWidths, w2 \in PairWidths, swap \in BOOLEAN :
        doc = LayoutDoc(n, Container(KidIds(n), "NONE", "NO_WRAP", <<>>),
                [i \in 2..(n + 1) |->
                    IF i = 2 THEN Child(i, Box(IF swap THEN 700 ELSE 0, y, w1, h), TRUE)
                    ELSE IF i = 3 THEN Child(i, Box(IF swap THEN 0 ELSE 700, y, w2, h), TRUE)
                    ELSE Child(i, Box(0, y, 500, h), FALSE)])

\* containers with layout grids and auto layout, with zero or more children
InitLayoutGrid ==
    \E n \in 0..(MaxNodes - 1), grids \in GridLists,
       layoutMode \in {"NONE", "HORIZONTAL", "VERTICAL"},
       layoutWrap \in {"NO_WRAP", "WRAP"} :
      \E vis \in [2..(n + 1) -> BOOLEAN] :
        doc = LayoutDoc(n, Container(KidIds(n), layoutMode, layoutWrap, grids),
                [i \in 2..(n + 1) |-> Child(i, Box(0, 100 * i, 400, 100), vis[i])])

InitLayout ==
    /\ pc = "loaded"
    /\ cfg = DefaultConfig
    /\ layout_info = NoLayout
    /\ IdleGenerator /\ IdleUnify /\ IdleFills /\ IdleAlias /\ IdleInput /\ IdleExclude
    /\ (InitLayoutRows \/ InitLayoutPair \/ InitLayoutGrid)

AnalyzeLayout ==
    /\ pc = "loaded"
    /\ layout_info' = analyze_layout_structure(target_frame)
    /\ pc' = "analyzed"
    /\ UNCHANGED <<cfg, doc, sections, CURRENT_SECTION_INDEX, HAS_H1_EMITTED,
                   html, collected_node_styles, NODE_KIND_MAP,
                   style_css, index_html, util_map,
                   fills_style,
                   input_json,
                   INCLUDE_CANDIDATES,
                   exclude_calls,
                   launch,
                   NODE_ALIAS_CANDIDATE,
                   ALIAS_FREQ,
                   ALIAS_BASE_FREQ,
                   pc_sections_html>>

\* the same container with two neighbours of its children array exchanged
Swapped(kids, i) ==
    [k \in DOMAIN kids |-> IF k = i THEN kids[i + 1]
                           ELSE IF k = i + 1 THEN kids[i] ELSE kids[k]]

ReorderChildren ==
    /\ pc = "analyzed"
    /\ \E i \in 1..(Len(target_frame.children) - 1) :
         LET kids == Swapped(target_frame.children, i)
         IN  /\ doc' = [doc EXCEPT ![FRAME_NODE_ID].children = kids]
             /\ layout_info' = analyze_layout_structure(
                                  [target_frame EXCEPT !.children = kids])
    /\ pc' = "reordered"
    /\ UNCHANGED <<cfg, sections, CURRENT_SECTION_INDEX, HAS_H1_EMITTED,
                   html, collected_node_styles, NODE_KIND_MAP,
                   style_css, index_html, util_map,
                   fills_style,
                   input_json,
                   INCLUDE_CANDIDATES,
                   exclude_calls,
                   launch,
                   NODE_ALIAS_CANDIDATE,
                   ALIAS_FREQ,
                   ALIAS_BASE_FREQ,
                   pc_sections_html>>

NextLayout == AnalyzeLayout \/ ReorderChildren

SpecLayout == InitLayout /\ [][NextLayout]_vars

-----------------------------------------------------------------------------
(* Properties of the layout analysis *)

Analysed == pc \in {"analyzed", "reordered"}

\* a layout grid as the analysis is documented to read it
DeclaredColumnGrid(grid) ==
    grid.pattern = "COLUMNS" /\ grid.visible /\ grid.count > 0

DeclaredColumnGrids == SelectSeq(target_frame.layoutGrids, DeclaredColumnGrid)

\* C7, as stated: whenever the container declares a visible COLUMNS grid with
\* count > 0, the analysis returns that count with reason "grid", whatever the
\* layoutMode, the geometry of the children and the number of children.
C7_GridAlwaysWins ==
    (Analysed /\ DeclaredColumnGrids # <<>>)
        => /\ layout_info.reason = "grid"
           /\ layout_info.columns \in {g.count : g \in Range(DeclaredColumnGrids)}

\* C7, amended: a container with at least one child (excluded or not) that
\* declares a visible COLUMNS grid with count > 0 is analysed with reason
\* "grid" and the count of the first such grid, whatever its layoutMode and
\* the geometry of its children; a container without children is analysed as
\* "no-children" before its grids are read.
C7_GridWinsWithChildren ==
    (Analysed /\ DeclaredColumnGrids # <<>>)
        => IF Len(target_frame.children) >= 1
           THEN /\ layout_info.reason = "grid"
                /\ layout_info.columns = DeclaredColumnGrids[1].count
                /\ layout_info.type = ColumnsType(DeclaredColumnGrids[1].count)
           ELSE layout_info.reason = "no-children" /\ layout_info.columns = 1

\* a HORIZONTAL container with two children and a grid of another count
C7_Witness ==
    /\ Analysed
    /\ DeclaredColumnGrids # <<>>
    /\ target_frame.layoutMode = "HORIZONTAL"
    /\ Len(child_positions_of(target_frame)) = 2
    /\ DeclaredColumnGrids[1].count = 4
    /\ layout_info.reason = "grid" /\ layout_info.columns = 4

\* the sets of children the position strategy puts into one row
RowMembership(element) ==
    LET rows == position_rows(element)
    IN  {{c.id : c \in Range(rows[k])} : k \in DOMAIN rows}

PositionAnalysed == layout_info.reason \in {"position", "position-none"}

\* the children that are not excluded have pairwise distinct tops
DistinctY ==
    LET cp == child_positions_of(target_frame)
    IN  \A i, j \in DOMAIN cp : i # j => cp[i].y # cp[j].y

\* the analysis of the reordered container equals the one before
SameAnalysis ==
    /\ layout_info' = layout_info
    /\ RowMembership(doc'[FRAME_NODE_ID]) = RowMembership(target_frame)

\* C8, as stated: for a container analysed by the position strategy, row
\* membership, column count and ratio classification are the same after any
\* reordering of the children array, children of equal Y included.
C8_PermutationInvariant ==
    [][(pc = "analyzed" /\ pc' = "reordered" /\ PositionAnalysed)
           => SameAnalysis]_vars

\* C8, amended: for a container analysed by the position strategy whose
\* non-excluded children have pairwise distinct Y, row membership, column
\* count and ratio classification are the same after any reordering of the
\* children array.
C8_PermutationInvariantDistinctY ==
    [][(pc = "analyzed" /\ pc' = "reordered" /\ PositionAnalysed /\ DistinctY)
           => SameAnalysis]_vars

\* a reordered container of three children with distinct tops and a row
C8_Witness ==
    /\ pc = "reordered"
    /\ DistinctY
    /\ Len(child_positions_of(target_frame)) = 3
    /\ layout_info.reason = "position"
    /\ layout_info.columns = 2

\* a container without grid and auto layout whose only two non-excluded
\* children have the same top and height, and the widths wa and wb
PairCase(wa, wb) ==
    LET cp == child_positions_of(target_frame)
    IN  /\ target_frame.layoutGrids = <<>>
        /\ target_frame.layoutMode = "NONE"
        /\ Len(cp) = 2
        /\ cp[1].y = cp[2].y
        /\ cp[1].height = cp[2].height
        /\ {cp[1].width, cp[2].width} = {wa, wb}

PairHeight == child_positions_of(target_frame)[1].height

TwoColumnWith(ratio) ==
    layout_info.type = "two-column" /\ layout_info.ratios = <<ratio>>

\* C9, as stated: two non-excluded children of the same Y and height are
\* analysed as two-column, with ratio "1:1" for the widths 500 and 500 and
\* "2:3" for the widths 400 and 600 in either order.
C9_PairRatios ==
    Analysed => /\ PairCase(500, 500) => TwoColumnWith("1:1")
                /\ PairCase(400, 600) => TwoColumnWith("2:3")

\* C9, amended: the same for children whose common height is at least 1px;
\* children of height 0 overlap nowhere and form no row.
C9_PairRatiosPositiveHeight ==
    Analysed =>
        /\ (PairCase(500, 500) /\ PairHeight >= 1) => TwoColumnWith("1:1")
        /\ (PairCase(400, 600) /\ PairHeight >= 1) => TwoColumnWith("2:3")
        /\ ((PairCase(500, 500) \/ PairCase(400, 600)) /\ PairHeight = 0)
               => layout_info.reason = "position-none"

\* the wider child on the left, classified "2:3"
C9_Witness ==
    /\ Analysed
    /\ PairCase(400, 600)
    /\ PairHeight >= 1
    /\ LET cp == child_positions_of(target_frame)
       IN  \E i, j \in 1..2 : cp[i].width = 600 /\ cp[j].width = 400
                              /\ cp[i].x < cp[j].x
    /\ TwoColumnWith("2:3")

\* both shares of a two-element row lie within 3% of 43% and 57%
SharesNearThreeToFour(l, r) ==
    LET total == l + r
        Near(w, centre) == Abs(100 * w - centre * total) < 3 * total
    IN  \/ Near(l, 43) /\ Near(r, 57)
        \/ Near(l, 57) /\ Near(r, 43)

\* C10: a two-element row whose shares are within 3% of 43% / 57%, such as
\* the widths 300 and 400, is classified "3:4".
C10_ThreeToFourBucket ==
    LET rows == position_rows(target_frame)
    IN  (/\ Analysed
         /\ layout_info.reason = "position"
         /\ Len(rows) = 1 /\ Len(rows[1]) = 2
         /\ SharesNearThreeToFour(rows[1][1].width, rows[1][2].width))
            => layout_info.ratios = <<"3:4">>

-----------------------------------------------------------------------------
(* tools/unify_styles.py: the shared utility classes of style.css *)

\* A declaration value: a word ("flex", "auto", "#000000") or a number with a
\* unit ("16px", "100%", "0").
Word(w) == [word |-> w, num |-> 0, unit |-> ""]

Num(n, unit) == [word |-> "", num |-> n, unit |-> unit]

\* the text of a value in the stylesheet
Text(v) == IF v.word # "" THEN v.word ELSE ToString(v.num) \o v.unit

PROP_WHITELIST ==
    {"display", "flex-direction", "gap", "justify-content", "align-items",
     "flex-wrap", "width", "align-self", "min-width", "max-width",
     "border-radius", "font-size"}

\* the whitelisted property names as sorted() orders them
SortedProps ==
    <<"align-items", "align-self", "border-radius", "display", "flex-direction",
      "flex-wrap", "font-size", "gap", "justify-content", "max-width",
      "min-width", "width">>

QUANT ==
    [gap           |-> [step_px |-> 4, max_dev_px |-> 2],
     border_radius |-> [step_px |-> 2, max_dev_px |-> 1],
     font_size     |-> [allowed |-> <<12, 14, 16, 18, 20, 24, 28, 32, 36, 40, 44>>]]

\* the pixels of "<n>px" and of a plain number, None (ok = FALSE)
\* for everything else
_px_int(v) ==
    IF v.word = "" /\ v.unit \in {"px", ""} THEN [ok |-> TRUE, px |-> v.num]
    ELSE [ok |-> FALSE, px |-> 0]

\* Python's round(num / den): to the nearest integer, halves to the even one
round(num, den) ==
    LET q == num \div den
        r == num % den
    IN  IF 2 * r < den THEN q
        ELSE IF 2 * r > den THEN q + 1
        ELSE IF q % 2 = 0 THEN q ELSE q + 1

\* the multiple of step_px nearest to value_px, unless it is further than
\* max_dev_px away
_quantize_px(value_px, step_px, max_dev_px) ==
    LET snapped == round(value_px, step_px) * step_px
    IN  IF Abs(value_px - snapped) <= max_dev_px THEN snapped ELSE value_px

\* min(allowed, key=lambda a: abs(a - px)): the first of the nearest
nearest_allowed(sizes, px) ==
    sizes[CHOOSE i \in DOMAIN sizes :
              /\ \A j \in DOMAIN sizes : Abs(sizes[i] - px) <= Abs(sizes[j] - px)
              /\ \A j \in 1..(i - 1) : Abs(sizes[j] - px) > Abs(sizes[i] - px)]

\* dict.pop(k, None)
Pop(decls, k) == [x \in DOMAIN decls \ {k} |-> decls[x]]

quantize_snap(decls, k, policy) ==
    IF k \in DOMAIN decls /\ _px_int(decls[k]).ok
    THEN [decls EXCEPT ![k] = Num(_quantize_px(_px_int(decls[k]).px, policy.step_px,
                                              policy.max_dev_px), "px")]
    ELSE decls

quantize_font_size(decls) ==
    IF "font-size" \in DOMAIN decls /\ _px_int(decls["font-size"]).ok
    THEN LET px      == _px_int(decls["font-size"]).px
             nearest == nearest_allowed(QUANT.font_size.allowed, px)
         IN  [decls EXCEPT !["font-size"] =
                 Num(IF Abs(nearest - px) <= 1 THEN nearest ELSE px, "px")]
    ELSE decls

\* width:auto and every explicit width but 100% leave the signature
quantize_width(decls) ==
    IF "width" \in DOMAIN decls /\ Text(decls["width"]) # "100%"
    THEN Pop(decls, "width") ELSE decls

\* quantize_decls: gap, border-radius, font-size, width, in this order
quantize_decls(decls) ==
    quantize_width(quantize_font_size(
        quantize_snap(quantize_snap(decls, "gap", QUANT.gap),
                      "border-radius", QUANT.border_radius)))

\* One rule of style.css: the class of its selector, whether the selector
\* starts with ".n-", and its declarations in the order of the text.
Rule(cls, is_node, body) == [cls |-> cls, is_node |-> is_node, body |-> body]

\* "k: v" of a rule body
Property(k, v) == [k |-> k, v |-> v]

\* the dict parse_css_rules builds of a rule body: whitelisted properties
\* only, a later declaration of a property replacing an earlier one
parsed_decls(body) ==
    [k \in {body[i].k : i \in DOMAIN body} \cap PROP_WHITELIST |->
        body[CHOOSE i \in DOMAIN body :
                 /\ body[i].k = k
                 /\ \A j \in DOMAIN body : body[j].k = k => j <= i].v]

\* parse_css_rules: the rules that keep at least one declaration
parse_css_rules(css_text) ==
    LET parsed == [i \in DOMAIN css_text.rules |->
                      [cls |-> css_text.rules[i].cls,
                       is_node |-> css_text.rules[i].is_node,
                       decls |-> parsed_decls(css_text.rules[i].body)]]
    IN  SelectSeq(parsed, LAMBDA r : DOMAIN r.decls # {})

RECURSIVE Join(_, _)
Join(sep, parts) ==
    IF parts = <<>> THEN ""
    ELSE IF Len(parts) = 1 THEN parts[1]
    ELSE parts[1] \o sep \o Join(sep, Tail(parts))

\* sorted(decls.items())
sorted_items(decls) == SelectSeq(SortedProps, LAMBDA k : k \in DOMAIN decls)

\* signature: "k:v;k:v;..." over the sorted items
signature(decls) ==
    LET items == sorted_items(decls)
    IN  Join(";", [i \in DOMAIN items |-> items[i] \o ":" \o Text(decls[items[i]])])

\* decls.get(k), "" for None
Get(decls, k) == IF k \in DOMAIN decls THEN Text(decls[k]) ELSE ""

jc_map ==
    [w \in {"flex-start", "center", "flex-end", "space-between", "space-around",
            "space-evenly"} |->
        CASE w = "flex-start" -> "js" [] w = "center" -> "jc" [] w = "flex-end" -> "je"
          [] w = "space-between" -> "jb" [] w = "space-around" -> "ja"
          [] w = "space-evenly" -> "jv"]

ai_map ==
    [w \in {"flex-start", "center", "flex-end", "stretch"} |->
        CASE w = "flex-start" -> "as" [] w = "center" -> "ac" [] w = "flex-end" -> "ae"
          [] w = "stretch" -> "at"]

\* util_name_from: the name is made of direction, gap, justify, align, wrap
\* and width:100% only.  A declaration set that yields no token is named
\* after a hash of its signature; the rules of the model all yield a token.
util_name_from(decls) ==
    LET fd == Get(decls, "flex-direction")
        jc == Get(decls, "justify-content")
        ai == Get(decls, "align-items")
        fw == Get(decls, "flex-wrap")
        gap_token ==
            IF "gap" \in DOMAIN decls /\ decls["gap"].word = ""
               /\ decls["gap"].unit = "px" /\ decls["gap"].num >= 0
            THEN <<"g" \o ToString(decls["gap"].num)>> ELSE <<>>
        flex_toks ==
            IF Get(decls, "display") = "flex"
            THEN (IF fd = "row" THEN <<"r">> ELSE IF fd = "column" THEN <<"c">> ELSE <<>>)
                 \o gap_token
                 \o (IF jc \in DOMAIN jc_map THEN <<jc_map[jc]>> ELSE <<>>)
                 \o (IF ai \in DOMAIN ai_map THEN <<ai_map[ai]>> ELSE <<>>)
                 \o (IF fw = "wrap" THEN <<"w">> ELSE IF fw = "nowrap" THEN <<"nw">>
                     ELSE <<>>)
            ELSE <<>>
        toks == flex_toks \o (IF Get(decls, "width") = "100%" THEN <<"w100">> ELSE <<>>)
    IN  IF toks = <<>> THEN "u-sign" ELSE "u-" \o Join("-", toks)

\* the node rules main groups: class, quantized declarations and signature
\* of every rule whose selector starts with ".n-" and whose signature is not
\* empty
signed_node_rules(rules) ==
    LET signed == [i \in DOMAIN rules |->
                      With(quantize_decls(rules[i].decls), LAMBDA q :
                          [cls |-> rules[i].cls, is_node |-> rules[i].is_node,
                           decls |-> q, sig |-> signature(q)])]
    IN  SelectSeq(signed, LAMBDA r : r.is_node /\ r.sig # "")

\* bucket: the signatures in the order of their first rule, each with the
\* classes of its rules; only the groups of two and more are kept
groups_of(signed) ==
    LET members(sig) == SelectSeq(signed, LAMBDA r : r.sig = sig)
        first == {i \in DOMAIN signed : \A j \in 1..(i - 1) : signed[j].sig # signed[i].sig}
        firsts == Ascending(first)
        bucket == [n \in DOMAIN firsts |->
                      [decls |-> signed[firsts[n]].decls,
                       sels  |-> [m \in DOMAIN members(signed[firsts[n]].sig) |->
                                     members(signed[firsts[n]].sig)[m].cls]]]
    IN  SelectSeq(bucket, LAMBDA g : Len(g.sels) >= 2)

\* util_map[uname] = decls, group after group: a name that is already a key
\* keeps its place and takes the new declarations
RECURSIVE build_util_map(_, _, _)
build_util_map(groups, i, acc) ==
    IF i > Len(groups) THEN acc
    ELSE With(util_name_from(groups[i].decls), LAMBDA uname :
             build_util_map(groups, i + 1,
                 IF \E j \in DOMAIN acc : acc[j].name = uname
                 THEN [j \in DOMAIN acc |->
                          IF acc[j].name = uname
                          THEN [name |-> uname, decls |-> groups[i].decls] ELSE acc[j]]
                 ELSE Append(acc, [name |-> uname, decls |-> groups[i].decls])))

\* class_to_util[s[1:]] = uname, group after group: the last group wins
build_class_to_util(groups) ==
    LET classes == UNION {Range(groups[i].sels) : i \in DOMAIN groups}
        last(c) == CHOOSE i \in DOMAIN groups :
                       /\ c \in Range(groups[i].sels)
                       /\ \A j \in DOMAIN groups : c \in Range(groups[j].sels) => j <= i
    IN  [c \in classes |-> util_name_from(groups[last(c)].decls)]

\* append_utils_to_css: the file is rewritten with one more header comment and
\* a rule for every utility whose name does not occur in the text read.  The
\* text holds ".u-" only in the utility rules of earlier runs.
append_utils_to_css(css, utils) ==
    [css EXCEPT !.headers = @ + 1,
                !.utils = @ \o SelectSeq(utils, LAMBDA u :
                                  \A j \in DOMAIN css.utils : css.utils[j].name # u.name)]

\* annotate_html on one class attribute; an element of the model carries one
\* node class, so `extra` has one member at most
add_util(arr, class_to_util) ==
    LET extra == {class_to_util[c] : c \in Range(arr) \cap DOMAIN class_to_util}
    IN  IF extra = {} THEN arr
        ELSE With(CHOOSE e \in extra : TRUE, LAMBDA e :
                 IF e \in Range(arr) THEN arr ELSE Append(arr, e))

annotate_html(html_classes, class_to_util) ==
    [i \in DOMAIN html_classes |-> add_util(html_classes[i], class_to_util)]

\* main: what one run of the tool makes of style.css and index.html
main(css, html_classes) ==
    With(groups_of(signed_node_rules(parse_css_rules(css))), LAMBDA groups :
        With(build_util_map(groups, 1, <<>>), LAMBDA utils :
            IF utils # <<>>
            THEN [css |-> append_utils_to_css(css, utils),
                  html |-> annotate_html(html_classes, build_class_to_util(groups)),
                  util_map |-> utils]
            ELSE [css |-> css, html |-> html_classes, util_map |-> utils]))

-----------------------------------------------------------------------------
(* The runs of unify_styles.py over one generated project as a state machine *)

MaxRuns == 2

\* the class of the node rule and of the element of a node
node_class(node_id) == "n-" \o css_safe_identifier(node_id)

FlexRow(gap) ==
    <<Property("display", Word("flex")), Property("flex-direction", Word("row")),
      Property("gap", Num(gap, "px"))>>

\* the rule bodies of the generated stylesheets of the model
RuleBodies ==
    { FlexRow(16), FlexRow(18), FlexRow(22),
      FlexRow(16) \o <<Property("min-width", Num(0, ""))>>,
      FlexRow(16) \o <<Property("width", Num(349, "px"))>>,
      <<Property("color", Word("#000000"))>> }

\* style.css as generated: a layout rule and one rule per node, no utility
\* rules yet
Stylesheet(bodies) ==
    [rules   |-> <<Rule("layout-2col", FALSE, FlexRow(16))>>
                 \o [i \in NodeNums |-> Rule(node_class(NodeId(i)), TRUE,
                                             bodies[NodeId(i)])],
     utils   |-> <<>>,
     headers |-> 0]

InitUnify ==
    /\ pc = "generated"
    /\ cfg = DefaultConfig
    /\ doc = <<>>
    /\ IdleGenerator /\ IdleLayout /\ IdleFills /\ IdleAlias /\ IdleInput /\ IdleExclude
    /\ \E bodies \in [NodeIds -> RuleBodies] : style_css = Stylesheet(bodies)
    /\ index_html = [i \in NodeNums |-> <<node_class(NodeId(i))>>]
    /\ util_map = <<>>

\* one run of the tool
UnifyStyles ==
    /\ pc = "generated"
    /\ style_css.headers < MaxRuns
    /\ \E result \in {main(style_css, index_html)} :
           /\ style_css' = result.css
           /\ index_html' = result.html
           /\ util_map' = result.util_map
    /\ UNCHANGED <<pc, cfg, doc, sections, CURRENT_SECTION_INDEX, HAS_H1_EMITTED,
                   html, collected_node_styles, NODE_KIND_MAP, layout_info,
                   fills_style,
                   input_json,
                   INCLUDE_CANDIDATES,
                   exclude_calls,
                   launch,
                   NODE_ALIAS_CANDIDATE,
                   ALIAS_FREQ,
                   ALIAS_BASE_FREQ,
                   pc_sections_html>>

NextUnify == UnifyStyles

SpecUnify == InitUnify /\ [][NextUnify]_vars

-----------------------------------------------------------------------------
(* Properties of the style unification *)

\* the body of the node rule of a node
BodyOf(node_id) ==
    style_css.rules[CHOOSE i \in DOMAIN style_css.rules :
                        style_css.rules[i].cls = node_class(node_id)].body

\* the classes of the element of a node
ClassesOf(node_id) ==
    Range(index_html[CHOOSE i \in DOMAIN index_html :
                         node_class(node_id) \in Range(index_html[i])])

UtilityNames == {style_css.utils[i].name : i \in DOMAIN style_css.utils}

\* the tool has run over rules A and B with display:flex; flex-direction:row;
\* gap:16px and a rule C that differs by gap:18px only, no other node rule
\* carrying a whitelisted property
FoldingExample ==
    /\ style_css.headers >= 1
    /\ BodyOf(NodeId(1)) = FlexRow(16)
    /\ BodyOf(NodeId(2)) = FlexRow(16)
    /\ BodyOf(NodeId(3)) = FlexRow(18)
    /\ \A i \in 4..MaxNodes : BodyOf(NodeId(i)) = <<Property("color", Word("#000000"))>>

\* C5: in the folding example exactly one utility class is created, the
\* elements of A and B reference it and the element of C does not.
C5_FoldingExample ==
    FoldingExample =>
        /\ Cardinality(UtilityNames) = 1
        /\ UtilityNames \subseteq ClassesOf(NodeId(1))
        /\ UtilityNames \subseteq ClassesOf(NodeId(2))
        /\ UtilityNames \cap ClassesOf(NodeId(3)) = {}

\* C6: the declarations of every utility rule an element references are the
\* whitelisted, quantized declarations of the element's own node rule.
C6_UtilityMatchesNode ==
    \A i \in NodeNums : \A u \in DOMAIN style_css.utils :
        style_css.utils[u].name \in ClassesOf(NodeId(i))
        => style_css.utils[u].decls = quantize_decls(parsed_decls(BodyOf(NodeId(i))))

-----------------------------------------------------------------------------
(* Colour resolution (_pick_solid_fill_rgba, extract_fills_styles).          *)
(* Opacities and colour alphas are kept in percent (0.5 -> 50), composite    *)
(* alphas in 1/10000, and a formatted alpha f"{alpha:.2f}" in hundredths.    *)

\* number of paints in the fills list of a node
MaxFills == 2

\* one paint of a fills list; the list runs from the bottom paint to the top
Fill(type, visible, opacity, color, gradientStops) ==
    [type |-> type, visible |-> visible, opacity |-> opacity, color |-> color,
     gradientStops |-> gradientStops]

\* f"rgba({r}, {g}, {b}, {alpha:.2f})"
Rgba(color, alpha) ==
    [r |-> color.r, g |-> color.g, b |-> color.b, alpha |-> round(alpha, 100)]

\* a colour written as "#rrggbb"
Hex(text) == [hex |-> text]

\* alpha = max(0.0, min(1.0, fill_opacity * node_opacity))
composite_alpha(fill, node_opacity) ==
    Max2(0, Min2(10000, fill.opacity * node_opacity))

\* the loop "for fill in reversed(fills)" of _pick_solid_fill_rgba, from
\* position i down; <<>> stands for None
RECURSIVE pick_solid_from(_, _)
pick_solid_from(element, i) ==
    IF i = 0 THEN <<>>
    ELSE LET fill == element.fills[i]
         IN  IF fill.type # "SOLID" \/ ~fill.visible
                \/ composite_alpha(fill, element.opacity) <= 0
             THEN pick_solid_from(element, i - 1)
             ELSE <<Rgba(fill.color, composite_alpha(fill, element.opacity))>>

_pick_solid_fill_rgba(element) == pick_solid_from(element, Len(element.fills))

\* style_info["color"] of extract_text_styles
extract_text_styles_color(element) ==
    LET rgba == _pick_solid_fill_rgba(element)
    IN  IF rgba # <<>> THEN rgba[1] ELSE Hex("#000000")

\* the CSS function a gradient paint is written with
gradient_css(fill_type, stop_alpha) ==
    [fn |-> IF fill_type = "GRADIENT_RADIAL" THEN "radial-gradient"
            ELSE IF fill_type = "GRADIENT_ANGULAR" THEN "conic-gradient"
            ELSE "linear-gradient",
     stop_alpha |-> stop_alpha]

\* "for base in fills": the lowest visible SOLID paint as base colour, with
\* ba = color.a * node_opacity
RECURSIVE base_color_css(_, _)
base_color_css(element, i) ==
    IF i > Len(element.fills) THEN <<>>
    ELSE LET base == element.fills[i]
         IN  IF base.visible /\ base.type = "SOLID"
             THEN <<[p |-> "background-color",
                     v |-> Rgba(base.color, base.color.a * element.opacity)]>>
             ELSE base_color_css(element, i + 1)

\* the loop "for idx, fill in enumerate(reversed(fills))" of
\* extract_fills_styles, from position i down: css_parts
RECURSIVE fills_css_parts(_, _)
fills_css_parts(element, i) ==
    IF i = 0 THEN <<>>
    ELSE LET fill  == element.fills[i]
             alpha == composite_alpha(fill, element.opacity)
         IN  IF ~fill.visible \/ alpha <= 0
             THEN fills_css_parts(element, i - 1)
             ELSE IF fill.type = "SOLID"
             THEN <<[p |-> "background-color", v |-> Rgba(fill.color, alpha)]>>
             ELSE IF fill.type \in {"GRADIENT_LINEAR", "GRADIENT_RADIAL",
                                    "GRADIENT_ANGULAR", "GRADIENT_DIAMOND"}
                     /\ fill.gradientStops > 0
             THEN base_color_css(element, 1)
                  \o <<[p |-> "background",
                        v |-> gradient_css(fill.type,
                                  round(fill.color.a * alpha, 10000))]>>
             ELSE \* a gradient without stops, an IMAGE paint
                  fills_css_parts(element, i - 1)

extract_fills_styles(element) == fills_css_parts(element, Len(element.fills))

Red == [r |-> 255, g |-> 0, b |-> 0, a |-> 100]

Blue == [r |-> 0, g |-> 0, b |-> 255, a |-> 100]

\* the paints of the nodes of the model
Paints ==
    {Fill("SOLID", v, o, c, 0) : v \in BOOLEAN, o \in {0, 50, 100, 150}, c \in {Red, Blue}}
    \cup {Fill("GRADIENT_LINEAR", TRUE, o, Red, n) : o \in {0, 100}, n \in {0, 1}}
    \cup {Fill("IMAGE", TRUE, 100, Red, 0)}

FillLists == UNION {[1..n -> Paints] : n \in 0..MaxFills}

\* one TEXT or RECTANGLE node with a fills list and an opacity
InitFills ==
    /\ pc = "fills-loaded"
    /\ cfg = DefaultConfig
    /\ IdleGenerator /\ IdleLayout /\ IdleUnify /\ IdleFills /\ IdleAlias /\ IdleInput /\ IdleExclude
    /\ \E type \in {"TEXT", "RECTANGLE"}, opacity \in {60, 100}, fills \in FillLists :
           doc = [id \in {FRAME_NODE_ID} |->
                     [DefaultNode EXCEPT !.id = id, !.type = type,
                                         !.opacity = opacity, !.fills = fills]]

\* the colour of a TEXT node
ExtractTextColor ==
    /\ pc = "fills-loaded"
    /\ target_frame.type = "TEXT"
    /\ fills_style' = [color |-> <<extract_text_styles_color(target_frame)>>,
                       css_parts |-> <<>>]
    /\ pc' = "fills-resolved"
    /\ UNCHANGED <<cfg, doc, sections, CURRENT_SECTION_INDEX, HAS_H1_EMITTED,
                   html, collected_node_styles, NODE_KIND_MAP, layout_info,
                   style_css, index_html, util_map,
                   input_json,
                   INCLUDE_CANDIDATES,
                   exclude_calls,
                   launch,
                   NODE_ALIAS_CANDIDATE,
                   ALIAS_FREQ,
                   ALIAS_BASE_FREQ,
                   pc_sections_html>>

\* the background of a container or rectangle
ExtractFills ==
    /\ pc = "fills-loaded"
    /\ target_frame.type # "TEXT"
    /\ fills_style' = [color |-> <<>>,
                       css_parts |-> extract_fills_styles(target_frame)]
    /\ pc' = "fills-resolved"
    /\ UNCHANGED <<cfg, doc, sections, CURRENT_SECTION_INDEX, HAS_H1_EMITTED,
                   html, collected_node_styles, NODE_KIND_MAP, layout_info,
                   style_css, index_html, util_map,
                   input_json,
                   INCLUDE_CANDIDATES,
                   exclude_calls,
                   launch,
                   NODE_ALIAS_CANDIDATE,
                   ALIAS_FREQ,
                   ALIAS_BASE_FREQ,
                   pc_sections_html>>

NextFills == ExtractTextColor \/ ExtractFills

SpecFills == InitFills /\ [][NextFills]_vars

-----------------------------------------------------------------------------
(* Properties of the colour resolution *)

\* the visible SOLID paints of the node
VisibleSolids ==
    {i \in DOMAIN target_frame.fills :
        target_frame.fills[i].type = "SOLID" /\ target_frame.fills[i].visible}

\* the solid colours the resolution has emitted: the text colour taken from a
\* paint, and every background-color
EmittedSolidColors ==
    {fills_style.color[k] : k \in {j \in DOMAIN fills_style.color :
                                      fills_style.color[j] # Hex("#000000")}}
    \cup {fills_style.css_parts[k].v :
             k \in {j \in DOMAIN fills_style.css_parts :
                       fills_style.css_parts[j].p = "background-color"}}

\* C12: every solid colour emitted for a node, as TEXT colour or as background
\* colour, is the colour of a visible SOLID paint of the node with the alpha
\* fillOpacity x nodeOpacity clamped to [0, 1].
C12_CompositeAlpha ==
    pc = "fills-resolved" =>
        \A rgba \in EmittedSolidColors :
            \E i \in VisibleSolids :
                rgba = Rgba(target_frame.fills[i].color,
                            composite_alpha(target_frame.fills[i], target_frame.opacity))

\* the node without the paints whose composite alpha is zero
WithoutZeroAlpha(element) ==
    [element EXCEPT !.fills =
        SelectSeq(element.fills,
                  LAMBDA fill : composite_alpha(fill, element.opacity) > 0)]

\* what the resolution makes of a node
Resolved(element) ==
    IF element.type = "TEXT"
    THEN [color |-> <<extract_text_styles_color(element)>>, css_parts |-> <<>>]
    ELSE [color |-> <<>>, css_parts |-> extract_fills_styles(element)]

\* C13: a paint whose composite alpha is zero contributes no declaration,
\* neither as the top colour nor as the base colour of a gradient: the
\* resolution gives what it gives for the node without these paints.
C13_ZeroAlphaSkipped ==
    pc = "fills-resolved" => fills_style = Resolved(WithoutZeroAlpha(target_frame))

-----------------------------------------------------------------------------
(* Shallow-wrapper flattening: the generator run on documents with wrapper  *)
(* frames, with FLATTEN_SHALLOW_WRAPPERS off (its default) and on.          *)

\* the nodes a document of the wrapper family is made of
WrapperNodes ==
    { FrameNode("Box"),
      FrameNode("Hero Section"),
      [FrameNode("Box") EXCEPT !.fills = <<Fill("SOLID", TRUE, 100, Red, <<>>)>>],
      [FrameNode("Box") EXCEPT !.paddingLeft = 16, !.paddingRight = 16],
      TextNode("Body", 16, 400, TRUE),
      TextNode("Body", 16, 400, FALSE) }

InitFlatten ==
    /\ pc = "loaded"
    /\ \E flatten \in BOOLEAN :
           cfg = [DefaultConfig EXCEPT !.FLATTEN_SHALLOW_WRAPPERS = flatten]
    /\ doc \in {d \in Documents(WrapperNodes) : WellFormed(d)}
    /\ sections = <<>>
    /\ CURRENT_SECTION_INDEX = -1
    /\ HAS_H1_EMITTED = FALSE
    /\ html = <<>>
    /\ collected_node_styles = <<>>
    /\ NODE_KIND_MAP = <<>>
    /\ IdleLayout /\ IdleUnify /\ IdleFills /\ IdleAlias /\ IdleInput /\ IdleExclude

SpecFlatten == InitFlatten /\ [][Next]_vars

\* a FRAME with exactly one visible child, zero padding, no fill and
\* layoutMode NONE (the nodes of the model have no stroke, effect, radius or
\* clipping)
IsPlainWrapper(node) ==
    /\ node.type = "FRAME"
    /\ Len(visible_children(node)) = 1
    /\ node.paddingLeft = 0 /\ node.paddingRight = 0
    /\ node.paddingTop = 0 /\ node.paddingBottom = 0
    /\ node.fills = <<>>
    /\ node.layoutMode = "NONE"

\* C20: a FRAME with exactly one visible child, zero padding, no fill and
\* layoutMode NONE has no markup element of its own in the generated markup.
C20_PlainWrapperElided ==
    pc = "done" =>
        \A node_id \in DOMAIN doc :
            IsPlainWrapper(Node(node_id)) => ~HasElement(node_id)

-----------------------------------------------------------------------------
(* The end-to-end scenario: a root frame whose only child is the FRAME      *)
(* "Hero Section" with the TEXT "Welcome" (32 px, weight 700) and a         *)
(* RECTANGLE of 400 x 300 with an IMAGE fill, under the default             *)
(* configuration, the three nodes placed in several ways.                   *)

\* where the hero frame lies in the root frame of 1000 x 2000
HeroBoxes == { Box(0, 0, 1000, 600), Box(0, 0, 1000, 900), Box(100, 200, 800, 600) }

\* where the text lies
WelcomeBoxes == { Box(0, 0, 400, 50), Box(100, 200, 400, 50), Box(500, 250, 400, 50),
                  Box(100, 500, 400, 50) }

\* where the picture lies
PictureBoxes == { Box(0, 0, 400, 300), Box(100, 200, 400, 300), Box(500, 200, 400, 300),
                  Box(100, 300, 400, 300) }

ScenarioDoc(hero, welcome, picture, text_first) ==
    NodeId(1) :> [FrameNode("Box") EXCEPT !.id = NodeId(1),
                      !.children = <<NodeId(2)>>,
                      !.absoluteBoundingBox = Box(0, 0, 1000, 2000)]
    @@ NodeId(2) :> [FrameNode("Hero Section") EXCEPT !.id = NodeId(2),
                        !.children = IF text_first THEN <<NodeId(3), NodeId(4)>>
                                     ELSE <<NodeId(4), NodeId(3)>>,
                        !.absoluteBoundingBox = hero]
    @@ NodeId(3) :> [TextNode("Welcome", 32, 700, TRUE) EXCEPT !.id = NodeId(3),
                        !.absoluteBoundingBox = welcome]
    @@ NodeId(4) :> [DefaultNode EXCEPT !.id = NodeId(4), !.type = "RECTANGLE",
                        !.name = "Rectangle",
                        !.fills = <<Fill("IMAGE", TRUE, 100, Red, <<>>)>>,
                        !.absoluteBoundingBox = picture]

InitScenario ==
    /\ pc = "loaded"
    /\ cfg = DefaultConfig
    /\ \E hero \in HeroBoxes, welcome \in WelcomeBoxes, picture \in PictureBoxes,
          text_first \in BOOLEAN :
           doc = ScenarioDoc(hero, welcome, picture, text_first)
    /\ sections = <<>>
    /\ CURRENT_SECTION_INDEX = -1
    /\ HAS_H1_EMITTED = FALSE
    /\ html = <<>>
    /\ collected_node_styles = <<>>
    /\ NODE_KIND_MAP = <<>>
    /\ IdleLayout /\ IdleUnify /\ IdleFills /\ IdleAlias /\ IdleInput /\ IdleExclude

SpecScenario == InitScenario /\ [][Next]_vars

\* the positions of the markup that hold an element of this kind
ElementsWith(P(_)) == {k \in DOMAIN html : P(html[k])}

\* the StyleRecord of the node declares the size 400 x 300, as width and
\* height or as the aspect ratio of the two
DeclaresSize(node_id) ==
    LET record == Range(Bucket(collected_node_styles, css_safe_identifier(node_id)))
    IN  \/ \E w, h \in record :
              w.p = "width" /\ w.v = "400px" /\ h.p = "height" /\ h.v = "300px"
        \/ \E d \in record : d.p = "aspect-ratio" /\ d.v = "400/300"

\* C21: the scenario yields exactly one section, named "Hero Section", whose
\* markup holds exactly one <h1>, that of the text "Welcome", and exactly one
\* image container, that of the rectangle, with the size 400 x 300 declared
\* in its StyleRecord.
C21_HeroScenario ==
    pc = "done" =>
        /\ Len(sections) = 1
        /\ sections[1].name = "Hero Section"
        /\ \E k \in DOMAIN html :
              /\ ElementsWith(LAMBDA e : e.tag = "h1") = {k}
              /\ html[k].node = NodeId(3)
        /\ \E k \in DOMAIN html :
              /\ ElementsWith(LAMBDA e : e.as = "image") = {k}
              /\ html[k].node = NodeId(4)
        /\ DeclaresSize(NodeId(4))

-----------------------------------------------------------------------------
(* Re-running the style unification *)

\* C22: a run of the tool on the output of an earlier run leaves style.css
\* and index.html as they are.
C22_UnifyIdempotent ==
    [][style_css.headers >= 1 =>
           (style_css' = style_css /\ index_html' = index_html)]_vars

-----------------------------------------------------------------------------
(* The launcher figma_02_build_from_json.py: the inputs are resolved from   *)
(* the command line and the environment, handed to the generator through    *)
(* os.environ, and the generator is imported.                               *)

\* the environment variables of the four inputs (--pc-json, --sp-json,
\* --frame-id, --sp-frame-id)
InputNames == {"INPUT_JSON_FILE", "SP_INPUT_JSON_FILE", "FRAME_NODE_ID", "SP_FRAME_NODE_ID"}

\* an argument that is not given, a variable that is not set
None == "None"

\* os.getenv(name)
getenv(environ, name) == environ[name]

\* load_dotenv(): a variable of the .env file is set unless the process
\* environment has it already
load_dotenv(environ, dotenv) ==
    [name \in InputNames |-> IF environ[name] # None THEN environ[name] ELSE dotenv[name]]

\* os.environ.setdefault(name, value)
setdefault(environ, name, value) ==
    IF environ[name] # None THEN environ ELSE [environ EXCEPT ![name] = value]

\* "args.x or os.getenv(X)"
resolved(args, environ, name) ==
    IF args[name] # None THEN args[name] ELSE getenv(environ, name)

\* "Propagate to generator env only if not already set"
propagate(args, environ) ==
    LET pc_json     == resolved(args, environ, "INPUT_JSON_FILE")
        sp_json     == resolved(args, environ, "SP_INPUT_JSON_FILE")
        frame_id    == resolved(args, environ, "FRAME_NODE_ID")
        sp_frame_id == resolved(args, environ, "SP_FRAME_NODE_ID")
        e1 == setdefault(environ, "INPUT_JSON_FILE", pc_json)
        e2 == IF sp_json # None THEN setdefault(e1, "SP_INPUT_JSON_FILE", sp_json) ELSE e1
        e3 == setdefault(e2, "FRAME_NODE_ID", frame_id)
    IN  IF sp_frame_id # None THEN setdefault(e3, "SP_FRAME_NODE_ID", sp_frame_id) ELSE e3

InitLaunch ==
    /\ pc = "launch"
    /\ cfg = DefaultConfig
    /\ doc = <<>>
    /\ sections = <<>>
    /\ CURRENT_SECTION_INDEX = -1
    /\ HAS_H1_EMITTED = FALSE
    /\ html = <<>>
    /\ collected_node_styles = <<>>
    /\ NODE_KIND_MAP = <<>>
    /\ INCLUDE_CANDIDATES = <<>> /\ exclude_calls = <<>>
    /\ IdleLayout /\ IdleUnify /\ IdleFills /\ IdleAlias /\ IdleInput
    /\ \E args \in [InputNames -> {None, "cli"}],
          shell \in [InputNames -> {None, "env"}],
          dotenv \in [InputNames -> {None, "dotenv"}] :
           launch = [args |-> args, shell |-> shell, dotenv |-> dotenv,
                     environ |-> shell,
                     generator |-> [name \in InputNames |-> None]]

\* main: load_dotenv()
LoadDotenv ==
    /\ pc = "launch"
    /\ launch' = [launch EXCEPT !.environ = load_dotenv(@, launch.dotenv)]
    /\ pc' = "parsed"
    /\ UNCHANGED <<cfg, doc, sections, CURRENT_SECTION_INDEX, HAS_H1_EMITTED, html,
                   collected_node_styles, NODE_KIND_MAP, layout_info,
                   style_css, index_html, util_map, fills_style, input_json,
                   INCLUDE_CANDIDATES, exclude_calls,
                   NODE_ALIAS_CANDIDATE,
                   ALIAS_FREQ,
                   ALIAS_BASE_FREQ,
                   pc_sections_html>>

\* main: the inputs are resolved, the required ones validated, and all of
\* them propagated
PropagateInputs ==
    /\ pc = "parsed"
    /\ IF resolved(launch.args, launch.environ, "INPUT_JSON_FILE") = None
          \/ resolved(launch.args, launch.environ, "FRAME_NODE_ID") = None
       THEN pc' = "exit" /\ launch' = launch
       ELSE /\ pc' = "propagated"
            /\ launch' = [launch EXCEPT !.environ = propagate(launch.args, @)]
    /\ UNCHANGED <<cfg, doc, sections, CURRENT_SECTION_INDEX, HAS_H1_EMITTED, html,
                   collected_node_styles, NODE_KIND_MAP, layout_info,
                   style_css, index_html, util_map, fills_style, input_json,
                   INCLUDE_CANDIDATES, exclude_calls,
                   NODE_ALIAS_CANDIDATE,
                   ALIAS_FREQ,
                   ALIAS_BASE_FREQ,
                   pc_sections_html>>

\* "import fetch_figma_layout": the generator calls load_dotenv() and reads
\* its inputs with os.getenv (PC_FIGMA_URL and SP_FIGMA_URL are not set)
ImportGenerator ==
    /\ pc = "propagated"
    /\ \E environ \in {load_dotenv(launch.environ, launch.dotenv)} :
           launch' = [launch EXCEPT !.environ = environ,
                                    !.generator = [name \in InputNames |->
                                                       getenv(environ, name)]]
    /\ pc' = "imported"
    /\ UNCHANGED <<cfg, doc, sections, CURRENT_SECTION_INDEX, HAS_H1_EMITTED, html,
                   collected_node_styles, NODE_KIND_MAP, layout_info,
                   style_css, index_html, util_map, fills_style, input_json,
                   INCLUDE_CANDIDATES, exclude_calls,
                   NODE_ALIAS_CANDIDATE,
                   ALIAS_FREQ,
                   ALIAS_BASE_FREQ,
                   pc_sections_html>>

NextLaunch == LoadDotenv \/ PropagateInputs \/ ImportGenerator

SpecLaunch == InitLaunch /\ [][NextLaunch]_vars

\* the input is supplied by an environment variable, of the process or of
\* the .env file
InEnvironment(name) == launch.shell[name] # None \/ launch.dotenv[name] # None

\* C23: an input supplied on the command line and through the environment
\* reaches the generator with its command-line value.
C23_CommandLineWins ==
    pc = "imported" =>
        \A name \in InputNames :
            (launch.args[name] # None /\ InEnvironment(name)) =>
                launch.generator[name] = launch.args[name]

-----------------------------------------------------------------------------
(* What the preprocessing of a local JSON keeps *)

\* the parent of a node in the input tree
InputParent(id) ==
    CHOOSE p \in DOMAIN input_json.document : id \in Range(input_json.document[p].children)

\* the ancestors of a node in the input tree, the nearest first
RECURSIVE InputAncestors(_)
InputAncestors(id) ==
    IF id = DOCUMENT_ID THEN <<>> ELSE <<InputParent(id)>> \o InputAncestors(InputParent(id))

\* the nearest ancestor the preprocessing does not remove
NearestRetained(id) ==
    LET up == InputAncestors(id)
    IN  up[CHOOSE i \in DOMAIN up :
               /\ ~should_remove_element(input_json.document[up[i]])
               /\ \A j \in 1..(i - 1) : should_remove_element(input_json.document[up[j]])]

\* visible, not itself removable, below no invisible node
VisibleContent(id) ==
    /\ id # DOCUMENT_ID
    /\ input_json.document[id].visible
    /\ ~should_remove_element(input_json.document[id])
    /\ \A i \in DOMAIN InputAncestors(id) :
           input_json.document[InputAncestors(id)[i]].visible

\* C24: after the preprocessing of a local JSON every node of the input that
\* is visible, not itself removable and below no invisible node is in the
\* cleaned tree, as a child of its nearest retained ancestor.
C24_VisibleContentKept ==
    (pc = "read" /\ input_json.INPUT_JSON_FILE) =>
        \A id \in DOMAIN input_json.document :
            VisibleContent(id) =>
                /\ id \in DOMAIN doc
                /\ id \in Range(doc[NearestRetained(id)].children)

-----------------------------------------------------------------------------
(* StyleRecords and markup elements *)

\* the node ids that have a StyleRecord with at least one declaration
StyledIds ==
    {safe_id \in DOMAIN collected_node_styles : collected_node_styles[safe_id] # <<>>}

\* the node ids whose element, carrying the node class, is in the markup
ElementIds == {css_safe_identifier(html[k].node) : k \in DOMAIN html}

\* C25: at the end of a generation pass every node id with a StyleRecord is
\* the id of a node whose element was emitted in that pass.
C25_RecordsHaveElements ==
    pc = "done" => StyledIds \subseteq ElementIds

-----------------------------------------------------------------------------
(* Leaf images below a container with an IMAGE fill: the section frame      *)
(* "Hero Section" holds a container of 400 x 200 at (100, 300) whose fill   *)
(* is an IMAGE, and the container holds one leaf image.                     *)

ImageFill(visible) == Fill("IMAGE", visible, 100, Red, <<>>)

\* the box of the container
ContainerBox == Box(100, 300, 400, 200)

\* The boxes of the leaf: a square of 100 x 100 of which 70, 80, 90 and 100
\* percent lie in the container, and a box as large as the container that
\* shares 70, 80, 90 and 100 percent with it.
LeafBoxes ==
    { Box(70, 300, 100, 100), Box(80, 300, 100, 100), Box(90, 300, 100, 100),
      Box(100, 300, 100, 100),
      Box(-20, 300, 400, 200), Box(20, 300, 400, 200), Box(60, 300, 400, 200),
      Box(100, 300, 400, 200) }

SuppressDoc(leaf, fill_visible) ==
    NodeId(1) :> [FrameNode("Box") EXCEPT !.id = NodeId(1),
                      !.children = <<NodeId(2)>>,
                      !.absoluteBoundingBox = Box(0, 0, 1000, 2000)]
    @@ NodeId(2) :> [FrameNode("Hero Section") EXCEPT !.id = NodeId(2),
                        !.children = <<NodeId(3)>>,
                        !.absoluteBoundingBox = Box(100, 200, 800, 900)]
    @@ NodeId(3) :> [FrameNode("Box") EXCEPT !.id = NodeId(3),
                        !.children = <<NodeId(4)>>,
                        !.fills = <<ImageFill(fill_visible)>>,
                        !.absoluteBoundingBox = ContainerBox]
    @@ NodeId(4) :> [DefaultNode EXCEPT !.id = NodeId(4), !.type = "RECTANGLE",
                        !.name = "Rectangle",
                        !.fills = <<ImageFill(TRUE)>>,
                        !.absoluteBoundingBox = leaf]

InitSuppress ==
    /\ pc = "loaded"
    /\ \E use_images, suppress_leafs \in BOOLEAN :
           cfg = [DefaultConfig EXCEPT !.USE_IMAGES = use_images,
                                       !.IMAGE_CONTAINER_SUPPRESS_LEAFS = suppress_leafs]
    /\ \E leaf \in LeafBoxes, fill_visible \in BOOLEAN :
           doc = SuppressDoc(leaf, fill_visible)
    /\ sections = <<>>
    /\ CURRENT_SECTION_INDEX = -1
    /\ HAS_H1_EMITTED = FALSE
    /\ html = <<>>
    /\ collected_node_styles = <<>>
    /\ NODE_KIND_MAP = <<>>
    /\ IdleLayout /\ IdleUnify /\ IdleFills /\ IdleAlias /\ IdleInput /\ IdleExclude

SpecSuppress == InitSuppress /\ [][Next]_vars

\* max(intersection / leaf area, intersection / container area) is strictly
\* greater than the threshold
OverlapAboveThreshold(leaf, container) ==
    LET inter == intersection_area(leaf, container)
    IN  \/ 100 * inter > SUPPRESS_IMAGE_OVERLAP_THRESHOLD_PCT * area(leaf)
        \/ 100 * inter > SUPPRESS_IMAGE_OVERLAP_THRESHOLD_PCT * area(container)

\* C28: the leaf image is left out of the markup only when its overlap with
\* the container is strictly greater than the threshold; at an overlap equal
\* to or below the threshold it is emitted.
C28_SuppressedOnlyAboveThreshold ==
    pc = "done" =>
        (~HasElement(NodeId(4)) =>
            OverlapAboveThreshold(Node(NodeId(4)).absoluteBoundingBox,
                                  Node(NodeId(3)).absoluteBoundingBox))

-----------------------------------------------------------------------------
(* Classification of leaves: the section frame "Hero Section" holds two     *)
(* childless nodes with several types, names and fills.                     *)

LeafFills ==
    { <<>>, <<ImageFill(TRUE)>>, <<ImageFill(FALSE)>>,
      <<Fill("SOLID", TRUE, 100, Red, <<>>)>> }

LeafNodes ==
    { [DefaultNode EXCEPT !.type = type, !.name = name, !.fills = fills] :
        type \in {"RECTANGLE", "VECTOR"}, name \in {"Rectangle", "Photo"},
        fills \in LeafFills }

ClassifyDoc(first, second) ==
    NodeId(1) :> [FrameNode("Box") EXCEPT !.id = NodeId(1),
                      !.children = <<NodeId(2)>>,
                      !.absoluteBoundingBox = Box(0, 0, 1000, 2000)]
    @@ NodeId(2) :> [FrameNode("Hero Section") EXCEPT !.id = NodeId(2),
                        !.children = <<NodeId(3), NodeId(4)>>,
                        !.absoluteBoundingBox = Box(100, 200, 800, 900)]
    @@ NodeId(3) :> [first EXCEPT !.id = NodeId(3),
                        !.absoluteBoundingBox = Box(100, 200, 400, 300)]
    @@ NodeId(4) :> [second EXCEPT !.id = NodeId(4),
                        !.absoluteBoundingBox = Box(100, 600, 400, 300)]

InitClassify ==
    /\ pc = "loaded"
    /\ cfg = DefaultConfig
    /\ \E first, second \in LeafNodes : doc = ClassifyDoc(first, second)
    /\ sections = <<>>
    /\ CURRENT_SECTION_INDEX = -1
    /\ HAS_H1_EMITTED = FALSE
    /\ html = <<>>
    /\ collected_node_styles = <<>>
    /\ NODE_KIND_MAP = <<>>
    /\ IdleLayout /\ IdleUnify /\ IdleFills /\ IdleAlias /\ IdleInput /\ IdleExclude

SpecClassify == InitClassify /\ [][Next]_vars

HasVisibleImageFill(node) ==
    \E i \in DOMAIN node.fills : node.fills[i].type = "IMAGE" /\ node.fills[i].visible

HasImageName(node) == \E keyword \in image_keywords : NameHas(node.name, keyword)

\* C29: a childless non-TEXT node is emitted as an image only if it has a
\* visible IMAGE fill or a name with an image keyword.
C29_ImageNeedsVisibleFillOrName ==
    \A k \in DOMAIN html :
        (html[k].as = "image" /\ html[k].node \in DOMAIN doc) =>
            \/ HasVisibleImageFill(Node(html[k].node))
            \/ HasImageName(Node(html[k].node))

-----------------------------------------------------------------------------
(* The style unification on a stylesheet with an @media block: the rules of *)
(* the text are the base rules of the nodes followed by the rules inside    *)
(* the block; `media` holds the positions of the latter.                    *)

\* the body of a rule inside the @media block
MediaBody == <<Property("width", Num(100, "%"))>>

\* the bodies of the base rules: one without and one with whitelisted
\* properties
BaseBodies == { <<Property("color", Word("#000000"))>>, FlexRow(16) }

MediaStylesheet(bodies, in_media) ==
    LET inside == Ascending({i \in NodeNums : in_media[NodeId(i)]})
    IN  [rules   |-> [i \in NodeNums |-> Rule(node_class(NodeId(i)), TRUE,
                                              bodies[NodeId(i)])]
                     \o [n \in DOMAIN inside |->
                            Rule(node_class(NodeId(inside[n])), TRUE, MediaBody)],
         utils   |-> <<>>,
         headers |-> 0,
         media   |-> (MaxNodes + 1)..(MaxNodes + Len(inside))]

InitUnifyMedia ==
    /\ pc = "generated"
    /\ cfg = DefaultConfig
    /\ doc = <<>>
    /\ IdleGenerator /\ IdleLayout /\ IdleFills /\ IdleAlias /\ IdleInput /\ IdleExclude
    /\ \E bodies \in [NodeIds -> BaseBodies], in_media \in [NodeIds -> BOOLEAN] :
           style_css = MediaStylesheet(bodies, in_media)
    /\ index_html = [i \in NodeNums |-> <<node_class(NodeId(i))>>]
    /\ util_map = <<>>

SpecUnifyMedia == InitUnifyMedia /\ [][NextUnify]_vars

\* the positions of the rules of a class that carry a whitelisted property
WhitelistedRules(cls) ==
    {i \in DOMAIN style_css.rules :
        /\ style_css.rules[i].cls = cls
        /\ DOMAIN parsed_decls(style_css.rules[i].body) # {}}

\* the class has such rules, and all of them lie inside the @media block
SolelyInMedia(cls) ==
    /\ WhitelistedRules(cls) # {}
    /\ WhitelistedRules(cls) \subseteq style_css.media

\* the base rules (outside the block) whose quantized declarations are these
BaseRulesWith(decls) ==
    {i \in DOMAIN style_css.rules \ style_css.media :
        /\ DOMAIN parsed_decls(style_css.rules[i].body) # {}
        /\ quantize_decls(parsed_decls(style_css.rules[i].body)) = decls}

\* C30: after a run of the tool every utility rule stands for the
\* declarations of two base rules at least, and the element of a class whose
\* rules lie solely inside the @media block carries no utility class.
C30_MediaRulesIgnored ==
    style_css.headers >= 1 =>
        /\ \A u \in DOMAIN style_css.utils :
               Cardinality(BaseRulesWith(style_css.utils[u].decls)) >= 2
        /\ \A i \in NodeNums :
               SolelyInMedia(node_class(NodeId(i))) =>
                   index_html[i] = <<node_class(NodeId(i))>>

\* the property names of the StyleRecord of a node
RecordProps(node_id) ==
    { Bucket(collected_node_styles, css_safe_identifier(node_id))[i].p :
        i \in DOMAIN Bucket(collected_node_styles, css_safe_identifier(node_id)) }

\* the declarations the claim rules out of the StyleRecord of a TEXT node
SizeAndSurfaceProps ==
    WidthProps \cup {p \in VisualProps : p \in {"background", "background-color", "border",
                                                "border-radius", "border-top", "border-left"}}

\* C26: under the conservative scope the StyleRecord of a TEXT node holds only
\* always-allowed layout basics and text cosmetics, and never a width,
\* min-width, background or border declaration, also when the parent
\* contributed declarations before the kind of the node was registered.
C26_TextRecordOnlyCosmetics ==
    cfg.NODE_STYLE_SCOPE = "conservative" =>
        \A node_id \in NodeIds :
            Node(node_id).type = "TEXT" =>
                /\ RecordProps(node_id) \subseteq AlwaysAllowedProps \cup TextCosmeticProps
                /\ RecordProps(node_id) \cap SizeAndSurfaceProps = {}

-----------------------------------------------------------------------------
(* The combined output: after the per-frame output the script generates the *)
(* markup of the same sections again, once for the PC-only combined file    *)
(* and once more in the final combined output guard.                        *)

\* "for i, section_summary in enumerate(...): pc_sections_html +=
\* generate_html_for_section(section_data, ...)": CURRENT_SECTION_INDEX is
\* not assigned in this loop and keeps the value of the first generation
RECURSIVE generate_pc_sections(_, _)
generate_pc_sections(i, st) ==
    IF i > Len(sections) THEN st
    ELSE With(generate_html_for_section(sections[i], st, CURRENT_SECTION_INDEX),
              LAMBDA s : generate_pc_sections(i + 1, s))

CombineOutput ==
    /\ pc \in {"done", "combined"}
    /\ \E st \in {generate_pc_sections(1,
                       Walk(<<>>, collected_node_styles, NODE_KIND_MAP,
                            HAS_H1_EMITTED,
                            Aliases(NODE_ALIAS_CANDIDATE, ALIAS_FREQ,
                                    ALIAS_BASE_FREQ)))} :
           /\ pc_sections_html' = st.html
           /\ collected_node_styles' = st.styles
           /\ NODE_KIND_MAP' = st.kinds
           /\ HAS_H1_EMITTED' = st.has_h1
           /\ NODE_ALIAS_CANDIDATE' = st.alias
           /\ ALIAS_FREQ' = st.alias_freq
           /\ ALIAS_BASE_FREQ' = st.alias_base_freq
    /\ pc' = IF pc = "done" THEN "combined" ELSE "final"
    /\ UNCHANGED <<cfg, doc, sections, CURRENT_SECTION_INDEX, html, layout_info,
                   style_css, index_html, util_map, fills_style, input_json,
                   INCLUDE_CANDIDATES, exclude_calls, launch>>

\* the alias classes are off by default and switched on by N_CLASS_ALIAS_MODE
AliasConfigs ==
    {DefaultConfig, [DefaultConfig EXCEPT !.N_CLASS_ALIAS_MODE = "add"]}

InitRegenerate ==
    /\ pc = "loaded"
    /\ cfg \in AliasConfigs
    /\ doc \in Documents(HeadingNodes) \cup Documents(StyleNodes)
    /\ WellFormed(doc)
    /\ sections = <<>>
    /\ CURRENT_SECTION_INDEX = -1
    /\ HAS_H1_EMITTED = FALSE
    /\ html = <<>>
    /\ collected_node_styles = <<>>
    /\ NODE_KIND_MAP = <<>>
    /\ IdleLayout /\ IdleUnify /\ IdleFills /\ IdleAlias /\ IdleInput /\ IdleExclude

NextRegenerate == Next \/ CombineOutput

SpecRegenerate == InitRegenerate /\ [][NextRegenerate]_vars

\* the markup as written to the file: per element the node, the tag, what it
\* was emitted as and its alias class
Markup(elements) ==
    [k \in DOMAIN elements |->
        [node |-> elements[k].node, tag |-> elements[k].tag,
         as |-> elements[k].as, alias |-> elements[k].alias]]

\* C27: generating the markup of the same sections again in the same process
\* yields the markup of the first generation and leaves every StyleRecord as
\* it was.
C27_RegenerationIsStable ==
    [][(pc = "done" \/ pc = "combined") =>
          (Markup(pc_sections_html') = Markup(html)
           /\ collected_node_styles' = collected_node_styles)]_vars

====
